---- MODULE Spec2Model ----
(***************************************************************************)
(* Model of retis: the metadata filter compiler                            *)
(* (retis/src/core/filters/meta/filter.rs), the packet filter compiler     *)
(* (retis/src/core/filters/packets/filter.rs), the kernel event factory    *)
(* (src/core/probe/kernel/kernel.rs), the raw tracepoint builder           *)
(* (retis/src/core/probe/kernel/raw_tracepoint.rs) and the collectors'     *)
(* start-up (src/collector/collector.rs), and the JSON form of the OVS     *)
(* events (retis-events/src/ovs.rs).                                       *)
(*                                                                         *)
(* FilterMeta::from_string is a pure function of the filter text and of    *)
(* the kernel BTF.  The filter text is a sequence of symbols: every        *)
(* character is one symbol, except that a member name of the lhs (which    *)
(* the code only ever compares as a whole) is kept as one symbol.  64-bit  *)
(* values are sequences of 8 bytes, least significant first, as            *)
(* to_ne_bytes lays them out on a little-endian host.                      *)
(***************************************************************************)
EXTENDS Integers, Sequences, FiniteSets, TLC

VARIABLES fstring, result, pc, pkt, kev, bld, col, ovs

vars == <<fstring, result, pc, pkt, kev, bld, col, ovs>>

\* The variables of each component; a specification of one component
\* leaves the others idle.
metaVars == <<fstring, result, pc>>
Idle == "idle"

(***************************************************************************)
(* Bounds of the model.                                                    *)
(***************************************************************************)
\* Longest dotted path (fields after sk_buff) drawn from the whole BTF.
MaxFields == 3
\* Longest chain of `next` pointers put before a leaf field.
MaxChain == 31
\* The instruction limit of a packet filter.  The program takes it from
\* the platform's bindings; the model takes a small one.
FILTER_MAX_INSNS == 4
\* How far past the limit a lowered program can be.
MaxOver == 2
\* Largest op_type drawn for an Operation event besides 255.
MaxOpType == 2
\* Longest cBPF program the pcap compiler returns.
MaxCbpf == 2
\* Most calls made on one probe builder.
MaxCalls == 4
\* Most hooks handed to a builder.
MaxHooks == 2
\* Most probes the collectors register.
MaxProbes == 2
\* Most events the poll loop emits.
MaxEvents == 2

(***************************************************************************)
(* Program constants.                                                      *)
(***************************************************************************)
META_OPS_MAX == 32
META_TARGET_MAX == 32
PTR_BIT == 64
SIGN_BIT == 128

\* enum MetaType
MetaType_Char == 1
MetaType_Short == 2
MetaType_Int == 3
MetaType_Long == 4

\* enum MetaCmp
MetaCmp_Eq == 0
MetaCmp_Gt == 1
MetaCmp_Lt == 2
MetaCmp_Ge == 3
MetaCmp_Le == 4
MetaCmp_Ne == 5

(***************************************************************************)
(* Integer helpers: u8 bit operations and u64 as 8 little-endian bytes.    *)
(***************************************************************************)
RECURSIVE BitOr(_, _)
\* a | b on non-negative integers.
BitOr(a, b) ==
    IF a = 0 THEN b
    ELSE IF b = 0 THEN a
    ELSE (IF (a % 2 = 1) \/ (b % 2 = 1) THEN 1 ELSE 0) + 2 * BitOr(a \div 2, b \div 2)

RECURSIVE BitAnd(_, _)
\* a & b on non-negative integers.
BitAnd(a, b) ==
    IF a = 0 \/ b = 0 THEN 0
    ELSE (IF (a % 2 = 1) /\ (b % 2 = 1) THEN 1 ELSE 0) + 2 * BitAnd(a \div 2, b \div 2)

Zero64 == [i \in 1..8 |-> 0]

IsZero64(v) == \A i \in 1..8 : v[i] = 0

\* !v on a u64.
Not64(v) == [i \in 1..8 |-> 255 - v[i]]

RECURSIVE CarryInto(_, _, _, _)
\* Carry entering byte i when v * base + digit is computed byte by byte.
CarryInto(v, base, digit, i) ==
    IF i = 1 THEN digit
    ELSE (v[i - 1] * base + CarryInto(v, base, digit, i - 1)) \div 256

\* checked_mul(base) then checked_add(digit) on a u64: overflow when a carry
\* leaves the eighth byte.
MulAdd64(v, base, digit) ==
    [ok  |-> CarryInto(v, base, digit, 9) = 0,
     val |-> [i \in 1..8 |-> (v[i] * base + CarryInto(v, base, digit, i)) % 256]]

RECURSIVE IncCarry(_, _)
IncCarry(v, i) == IF i = 1 THEN 1 ELSE (v[i - 1] + IncCarry(v, i - 1)) \div 256

\* n + 1 modulo 2^64.
Inc64(n) == [i \in 1..8 |-> (n[i] + IncCarry(n, i)) % 256]

\* Two's complement negation: (!v) + 1 modulo 2^64.
Neg64(v) == Inc64(Not64(v))

(***************************************************************************)
(* Text helpers (str::split, starts_with, ends_with, strip_prefix).        *)
(***************************************************************************)
StartsWith(s, p) == Len(s) >= Len(p) /\ SubSeq(s, 1, Len(p)) = p

EndsWith(s, p) == Len(s) >= Len(p) /\ SubSeq(s, Len(s) - Len(p) + 1, Len(s)) = p

Drop(s, n) == SubSeq(s, n + 1, Len(s))

RECURSIVE SplitFrom(_, _, _, _)
SplitFrom(s, sep, i, cur) ==
    IF i > Len(s) THEN <<cur>>
    ELSE IF s[i] = sep THEN <<cur>> \o SplitFrom(s, sep, i + 1, <<>>)
    ELSE SplitFrom(s, sep, i + 1, Append(cur, s[i]))

\* str::split(sep): always at least one piece, empty pieces are kept.
Split(s, sep) == SplitFrom(s, sep, 1, <<>>)

RECURSIVE Join(_, _)
\* The pieces of a sequence of texts put back together with sep between.
Join(pieces, sep) ==
    IF Len(pieces) = 0 THEN <<>>
    ELSE IF Len(pieces) = 1 THEN pieces[1]
    ELSE pieces[1] \o <<sep>> \o Join(Tail(pieces), sep)

\* Value of a digit symbol, -1 when the symbol is not a digit of any radix.
DigitVal(c) ==
    CASE c = "0" -> 0  [] c = "1" -> 1  [] c = "2" -> 2  [] c = "3" -> 3
      [] c = "4" -> 4  [] c = "5" -> 5  [] c = "6" -> 6  [] c = "7" -> 7
      [] c = "8" -> 8  [] c = "9" -> 9
      [] c = "a" -> 10 [] c = "b" -> 11 [] c = "c" -> 12
      [] c = "d" -> 13 [] c = "e" -> 14 [] c = "f" -> 15
      [] c = "A" -> 10 [] c = "B" -> 11 [] c = "C" -> 12
      [] c = "D" -> 13 [] c = "E" -> 14 [] c = "F" -> 15
      [] OTHER -> -1

\* Byte of a character (str::as_bytes) for the characters the model draws.
AsByte(c) ==
    CASE c = "0" -> 48 [] c = "1" -> 49 [] c = "2" -> 50 [] c = "3" -> 51
      [] c = "4" -> 52 [] c = "5" -> 53 [] c = "6" -> 54 [] c = "7" -> 55
      [] c = "8" -> 56 [] c = "9" -> 57
      [] c = "a" -> 97 [] c = "b" -> 98 [] c = "c" -> 99 [] c = "d" -> 100
      [] c = "e" -> 101 [] c = "f" -> 102 [] c = "m" -> 109 [] c = "u" -> 117
      [] c = "x" -> 120 [] c = "y" -> 121
      [] c = "-" -> 45 [] c = "+" -> 43 [] c = "'" -> 39 [] c = "\"" -> 34
      [] c = "~" -> 126 [] c = ":" -> 58 [] c = "." -> 46
      [] OTHER -> 63

FailedParse == [ok |-> FALSE, val |-> Zero64]

RECURSIVE ParseDigits(_, _, _, _)
\* The running value after one more digit, or the overflow error.
ParseNext(s, radix, i, r) ==
    IF ~r.ok THEN FailedParse ELSE ParseDigits(s, radix, i + 1, r.val)

\* One digit d of the text: it must be a digit of the radix.
ParseDigit(s, radix, i, acc, d) ==
    IF d < 0 \/ d >= radix THEN FailedParse
    ELSE ParseNext(s, radix, i, MulAdd64(acc, radix, d))

\* The digit loop of from_str_radix: every symbol must be a digit of the
\* radix and the running value must not overflow a u64.
ParseDigits(s, radix, i, acc) ==
    IF i > Len(s) THEN [ok |-> TRUE, val |-> acc]
    ELSE ParseDigit(s, radix, i, acc, DigitVal(s[i]))

\* At least one digit is required.
ParseNonEmpty(digits, radix) ==
    IF Len(digits) = 0 THEN FailedParse ELSE ParseDigits(digits, radix, 1, Zero64)

\* u64::from_str_radix (and str::parse::<u64> for radix 10): an optional
\* leading '+', then at least one digit.
ParseU64(s, radix) ==
    ParseNonEmpty(IF StartsWith(s, <<"+">>) THEN Drop(s, 1) ELSE s, radix)

\* The range check of a negative i64 (down to -2^63), then the cast as u64.
NegativeI64(m) ==
    IF ~m.ok THEN FailedParse
    ELSE IF m.val[8] < 128 \/ (m.val[8] = 128 /\ \A i \in 1..7 : m.val[i] = 0)
         THEN [ok |-> TRUE, val |-> Neg64(m.val)]
         ELSE FailedParse

\* The range check of a non-negative i64 (up to 2^63 - 1).
PositiveI64(m) ==
    IF ~m.ok THEN FailedParse
    ELSE IF m.val[8] < 128 THEN [ok |-> TRUE, val |-> m.val] ELSE FailedParse

\* str::parse::<i64>, the result cast `as u64`.
ParseI64(s) ==
    IF StartsWith(s, <<"-">>) THEN NegativeI64(ParseNonEmpty(Drop(s, 1), 10))
    ELSE IF StartsWith(s, <<"+">>) THEN PositiveI64(ParseNonEmpty(Drop(s, 1), 10))
    ELSE PositiveI64(ParseNonEmpty(s, 10))

(***************************************************************************)
(* The kernel BTF the compiler walks.  It is an input of from_string; the  *)
(* model fixes one type graph shaped after the struct sk_buff and struct   *)
(* net_device members that the unit tests of filter.rs name.  A type is    *)
(* [kind, type, size, signed, len, members]; `type` is the type referred   *)
(* to (pointee, element, aliased type), the other fields are those of the  *)
(* kind.  A member is [name, type, bit_offset, bitfield_size], with        *)
(* bitfield_size = NoBf when the struct carries no bitfield information.   *)
(***************************************************************************)
NoBf == -1

Ty(kind, type, size, signed, len, members) ==
    [kind |-> kind, type |-> type, size |-> size, signed |-> signed,
     len |-> len, members |-> members]

Mb(name, type, bit_offset, bitfield_size) ==
    [name |-> name, type |-> type, bit_offset |-> bit_offset,
     bitfield_size |-> bitfield_size]

IntTy(size, signed) == Ty("Int", "none", size, signed, 0, <<>>)
RefTy(kind, type) == Ty(kind, type, 0, FALSE, 0, <<>>)
ArrTy(type, len) == Ty("Array", type, 0, FALSE, len, <<>>)
AggTy(kind, members) == Ty(kind, "none", 0, FALSE, 0, members)

BtfType(id) ==
    CASE id = "sk_buff" ->
            AggTy("Struct", <<
                Mb("", "skb_u0", 0, 0),
                Mb("cb", "char_48", 320, 0),
                Mb("cloned", "u8", 1008, 1),
                Mb("", "skb_uh", 1024, 0),
                Mb("head", "p_uchar", 1600, 0),
                Mb("users", "refcount_t", 1792, 0) >>)
      [] id = "skb_u0" ->
            AggTy("Union", <<
                Mb("", "skb_s0", 0, NoBf),
                Mb("tstamp", "ulong", 0, NoBf) >>)
      [] id = "skb_s0" ->
            AggTy("Struct", <<
                Mb("next", "p_sk_buff", 0, NoBf),
                Mb("", "skb_u1", 128, NoBf) >>)
      [] id = "skb_u1" ->
            AggTy("Union", <<
                Mb("dev", "p_net_device", 0, NoBf) >>)
      [] id = "skb_uh" ->
            AggTy("Union", <<
                Mb("", "skb_hdr", 0, NoBf),
                Mb("headers", "skb_hdr", 0, NoBf) >>)
      [] id = "skb_hdr" ->
            AggTy("Struct", <<
                Mb("pkt_type", "u8", 0, 3),
                Mb("vlan_tci", "u16", 32, 0),
                Mb("skb_iif", "int", 128, 0),
                Mb("mark", "u32", 320, 0) >>)
      [] id = "refcount_t" ->
            AggTy("Struct", << Mb("refs", "atomic_t", 0, NoBf) >>)
      [] id = "atomic_t" ->
            AggTy("Struct", << Mb("counter", "int", 0, NoBf) >>)
      [] id = "net_device" ->
            AggTy("Struct", <<
                Mb("name", "char_16", 0, NoBf),
                Mb("mtu", "uint", 320, NoBf),
                Mb("perm_addr", "uchar_32", 4992, NoBf),
                Mb("pcpu_refcnt", "p_int", 9024, NoBf),
                Mb("reg_state", "netreg_state", 10688, NoBf),
                Mb("_tx", "pp_netdev_queue", 12288, NoBf),
                Mb("proto_down", "u8", 65600, NoBf) >>)
      [] id = "netdev_queue"    -> AggTy("Struct", << Mb("dev", "p_net_device", 0, NoBf) >>)
      [] id = "netreg_state"    -> Ty("Enum", "none", 4, FALSE, 0, <<>>)
      [] id = "p_sk_buff"       -> RefTy("Ptr", "sk_buff")
      [] id = "p_net_device"    -> RefTy("Ptr", "net_device")
      [] id = "p_netdev_queue"  -> RefTy("Ptr", "netdev_queue")
      [] id = "pp_netdev_queue" -> RefTy("Ptr", "p_netdev_queue")
      [] id = "p_uchar"         -> RefTy("Ptr", "uchar")
      [] id = "p_int"           -> RefTy("Ptr", "int")
      [] id = "char_48"         -> ArrTy("char", 48)
      [] id = "char_16"         -> ArrTy("char", 16)
      [] id = "uchar_32"        -> ArrTy("uchar", 32)
      [] id = "u8"              -> RefTy("Typedef", "uchar")
      [] id = "u16"             -> RefTy("Typedef", "ushort")
      [] id = "u32"             -> RefTy("Typedef", "uint")
      [] id = "char"            -> IntTy(1, TRUE)
      [] id = "uchar"           -> IntTy(1, FALSE)
      [] id = "ushort"          -> IntTy(2, FALSE)
      [] id = "int"             -> IntTy(4, TRUE)
      [] id = "uint"            -> IntTy(4, FALSE)
      [] id = "ulong"           -> IntTy(8, FALSE)
      [] OTHER                  -> Ty("Void", "none", 0, FALSE, 0, <<>>)

KindOf(t) == BtfType(t).kind

AggregateKinds == {"Struct", "Union"}

TransparentKinds == {"Typedef", "Volatile", "Const", "Restrict", "DeclTag", "TypeTag"}

IsAggregate(t) == KindOf(t) \in AggregateKinds

IsTransparent(t) == KindOf(t) \in TransparentKinds

\* The type a type of record ty refers to, "none" when it refers to none.
Referred(ty) ==
    IF ty.kind \in {"Ptr", "Array"} \cup TransparentKinds THEN ty.type ELSE "none"

\* One step of btf.type_iter(): the type after t, "none" at the end of the
\* chain.
TypeIterNext(t) == Referred(BtfType(t))

(***************************************************************************)
(* MetaLoad, MetaTarget and their predicates.  A MetaOp is a union; the    *)
(* field `shape` records which member the code wrote.                      *)
(***************************************************************************)
\* MetaOp::new() seen through load_ref_mut().
NewLoad == [shape |-> "l", type |-> 0, nmemb |-> 0, offt |-> 0, bf_size |-> 0,
            mask |-> Zero64]

\* MetaOp::new() seen through target_ref_mut().
NewTarget == [shape |-> "t", md |-> [i \in 1..META_TARGET_MAX |-> 0], sz |-> 0,
              cmp |-> 0]

is_byte(l) == BitAnd(l.type, 31) = MetaType_Char
is_short(l) == BitAnd(l.type, 31) = MetaType_Short
is_int(l) == BitAnd(l.type, 31) = MetaType_Int
is_long(l) == BitAnd(l.type, 31) = MetaType_Long
is_num(l) == is_byte(l) \/ is_short(l) \/ is_int(l) \/ is_long(l)
is_ptr(l) == BitAnd(l.type, PTR_BIT) > 0
is_signed(l) == BitAnd(l.type, SIGN_BIT) > 0
is_arr(l) == l.nmemb > 0

bail_on_arr(l) == is_arr(l)
bail_on_ptr(l) == is_ptr(l)

\* MetaCmp::from_str; -1 stands for the bail on an unknown operator.
MetaCmp_from_str(op) ==
    CASE op = <<"=", "=">> -> MetaCmp_Eq
      [] op = <<">">>      -> MetaCmp_Gt
      [] op = <<"<">>      -> MetaCmp_Lt
      [] op = <<">", "=">> -> MetaCmp_Ge
      [] op = <<"<", "=">> -> MetaCmp_Le
      [] op = <<"!", "=">> -> MetaCmp_Ne
      [] OTHER             -> -1

(***************************************************************************)
(* Outcomes.  A function of the code either returns Ok, returns Err, or    *)
(* panics (an out-of-range slice aborts the thread instead of returning).  *)
(***************************************************************************)
Ok(ops) == [kind |-> "Ok", ops |-> ops, err |-> ""]
Err(msg) == [kind |-> "Err", ops |-> <<>>, err |-> msg]
Panic(msg) == [kind |-> "Panic", ops |-> <<>>, err |-> msg]

(***************************************************************************)
(* emit_load                                                               *)
(***************************************************************************)
LoadErr(msg, lop) == [err |-> msg, lop |-> lop]
LoadOk(lop) == [err |-> "", lop |-> lop]

\* lop.type |= bits.
OrType(lop, bits) == [lop EXCEPT !.type = BitOr(@, bits)]

SignBitOf(ty) == IF ty.signed THEN SIGN_BIT ELSE 0

\* The width bits of an Int of 1, 2, 4 or 8 bytes.
WidthOf(size) ==
    CASE size = 8 -> MetaType_Long
      [] size = 4 -> MetaType_Int
      [] size = 2 -> MetaType_Short
      [] OTHER    -> MetaType_Char

\* The end of the Type::Int arm: arrays of and pointers to anything but
\* bytes are refused.
IntLoadCheck(l2) ==
    IF ~is_byte(l2) /\ bail_on_arr(l2) THEN LoadErr("array of int", l2)
    ELSE IF ~is_byte(l2) /\ bail_on_ptr(l2) THEN LoadErr("pointers to int", l2)
    ELSE LoadOk(l2)

\* One turn of the `match t` of emit_load, ty being the record of t, on the
\* load built so far.
EmitLoadStep(ty, lop) ==
    CASE ty.kind = "Ptr" ->
            IF bail_on_ptr(lop) THEN LoadErr("pointers to ptr", lop)
            ELSE LoadOk(OrType(lop, PTR_BIT))
      [] ty.kind = "Array" ->
            IF bail_on_ptr(lop) THEN LoadErr("pointers to array", lop)
            ELSE IF ty.len > 255 THEN LoadErr("array length", lop)
            ELSE LoadOk([lop EXCEPT !.nmemb = ty.len])
      [] ty.kind = "Enum" ->
            IF bail_on_ptr(lop) THEN LoadErr("pointers to enum", lop)
            ELSE LoadOk(OrType(OrType(lop, MetaType_Int), SignBitOf(ty)))
      [] ty.kind = "Enum64" ->
            IF bail_on_ptr(lop) THEN LoadErr("pointers to enum64", lop)
            ELSE LoadOk(OrType(OrType(lop, MetaType_Long), SignBitOf(ty)))
      [] ty.kind = "Int" ->
            IF ty.size \notin {1, 2, 4, 8} THEN LoadErr("unsupported type", lop)
            ELSE IntLoadCheck(OrType(OrType(lop, SignBitOf(ty)), WidthOf(ty.size)))
      [] ty.kind \in TransparentKinds -> LoadOk(lop)
      [] OTHER -> LoadErr("unsupported type while emitting", lop)

RECURSIVE EmitLoadLoop(_, _)
\* The end of one turn of the loop: t = type_iter.next(), or break.
EmitLoadNext(next, r) ==
    IF r.err # "" \/ next = "none" THEN r ELSE EmitLoadLoop(next, r.lop)

\* The `loop` of emit_load: the type itself, then its type_iter chain.
EmitLoadLoop(t, lop) ==
    EmitLoadNext(TypeIterNext(t), EmitLoadStep(BtfType(t), lop))

\* The mask test of emit_load without the signedness condition.
MaskRefused_AnyNum(lop, mask) ==
    ~IsZero64(mask) /\ ~(is_ptr(lop) \/ is_num(lop))

\* The mask test of emit_load: TRUE when the mask is refused.
MaskRefused(lop, mask) ==
    ~IsZero64(mask) /\ ~(is_ptr(lop) \/ (is_num(lop) /\ ~is_signed(lop)))

\* Variant: offt is a byte offset whether the field is a bitfield or not.
EmitLoadFinish_AlwaysBytes(r, offt, bfs, mask) ==
    IF r.err # "" THEN r
    ELSE IF MaskRefused(r.lop, mask)
    THEN LoadErr("mask is only supported for pointers and unsigned", r.lop)
    ELSE IF bfs > 255 THEN LoadErr("bf_size out of range", r.lop)
    ELSE IF offt > 65535 THEN LoadErr("offt out of range", r.lop)
    ELSE LoadOk([r.lop EXCEPT !.mask = mask, !.bf_size = bfs, !.offt = offt \div 8])

\* Variant: the range of offt is tested after the division by 8.
EmitLoadFinish_DivideFirst(r, offt, bfs, mask) ==
    IF r.err # "" THEN r
    ELSE IF MaskRefused(r.lop, mask)
    THEN LoadErr("mask is only supported for pointers and unsigned", r.lop)
    ELSE IF bfs > 255 THEN LoadErr("bf_size out of range", r.lop)
    ELSE IF (IF bfs = 0 THEN offt \div 8 ELSE offt) > 65535
    THEN LoadErr("offt out of range", r.lop)
    ELSE LoadOk([r.lop EXCEPT !.mask = mask,
                              !.bf_size = bfs,
                              !.offt = IF bfs = 0 THEN offt \div 8 ELSE offt])

\* What follows the loop of emit_load: mask, bf_size, offt.
EmitLoadFinish(r, offt, bfs, mask) ==
    IF r.err # "" THEN r
    ELSE IF MaskRefused(r.lop, mask)
    THEN LoadErr("mask is only supported for pointers and unsigned", r.lop)
    ELSE IF bfs > 255 THEN LoadErr("bf_size out of range", r.lop)
    ELSE IF offt > 65535 THEN LoadErr("offt out of range", r.lop)
    ELSE LoadOk([r.lop EXCEPT !.mask = mask,
                              !.bf_size = bfs,
                              !.offt = IF bfs = 0 THEN offt \div 8 ELSE offt])

\* MetaOp::emit_load(btf, type, offt, bfs, mask): [err, lop].
emit_load(t, offt, bfs, mask) ==
    IF KindOf(t) = "Void" THEN LoadErr("no iterable BTF type", NewLoad)
    ELSE EmitLoadFinish(EmitLoadLoop(t, NewLoad), offt, bfs, mask)

(***************************************************************************)
(* Rval and emit_target                                                    *)
(***************************************************************************)
RECURSIVE TrimStartMatches(_, _)
\* str::trim_start_matches(p): every repetition of the prefix is removed.
TrimStartMatches(s, p) ==
    IF StartsWith(s, p) THEN TrimStartMatches(Drop(s, Len(p)), p) ELSE s

Quoted(rval, q) == StartsWith(rval, <<q>>) /\ EndsWith(rval, <<q>>)

\* Rval::from_str: [kind, val].  The slice rval[1..rval.len() - 1] panics
\* when its start is past its end, which is the kind "Panic".
Rval_from_str(rval) ==
    IF Quoted(rval, "\"") \/ Quoted(rval, "'")
    THEN IF 1 > Len(rval) - 1
         THEN [kind |-> "Panic", val |-> <<>>]
         ELSE [kind |-> "Str", val |-> SubSeq(rval, 2, Len(rval) - 1)]
    ELSE IF StartsWith(rval, <<"0", "x">>)
         THEN [kind |-> "Hex", val |-> TrimStartMatches(rval, <<"0", "x">>)]
         ELSE [kind |-> "Dec", val |-> rval]

\* The result of a parse with the message of its `?`.
LongOf(r, msg) == [ok |-> r.ok, val |-> r.val, err |-> msg]

\* TargetLong without the bail on a negative value for an unsigned type.
TargetLong_NoSignCheck(lmo, rval) ==
    CASE rval.kind = "Dec" ->
            IF StartsWith(rval.val, <<"-">>)
            THEN LongOf(ParseI64(rval.val), "parse i64")
            ELSE LongOf(ParseU64(rval.val, 10), "parse u64")
      [] rval.kind = "Hex" -> LongOf(ParseU64(rval.val, 16), "parse hex")
      [] OTHER -> LongOf(FailedParse, "neither decimal nor hex")

\* The numeric arm of emit_target: the rhs as a u64, [ok, val, err].
TargetLong(lmo, rval) ==
    CASE rval.kind = "Dec" ->
            IF StartsWith(rval.val, <<"-">>)
            THEN IF ~is_signed(lmo)
                 THEN LongOf(FailedParse, "value is signed while type is unsigned")
                 ELSE LongOf(ParseI64(rval.val), "parse i64")
            ELSE LongOf(ParseU64(rval.val, 10), "parse u64")
      [] rval.kind = "Hex" -> LongOf(ParseU64(rval.val, 16), "parse hex")
      [] OTHER -> LongOf(FailedParse, "neither decimal nor hex")

TargetErr(msg) == [err |-> msg, top |-> NewTarget]

\* sz of a numeric Target.
NumSize(lmo) ==
    CASE is_byte(lmo)  -> 1
      [] is_short(lmo) -> 2
      [] is_int(lmo)   -> 4
      [] OTHER         -> 8

\* StrTarget that accepts a string as long as md.
StrTarget_OffByOne(val, cmp_op) ==
    IF Len(val) > META_TARGET_MAX THEN TargetErr("invalid rval size")
    ELSE [err |-> "",
          top |-> [NewTarget EXCEPT
                     !.md = [i \in 1..META_TARGET_MAX |->
                               IF i <= Len(val) THEN AsByte(val[i]) ELSE 0],
                     !.sz = Len(val),
                     !.cmp = cmp_op]]

\* The string arm of emit_target once the operator was accepted.
StrTarget(val, cmp_op) ==
    IF Len(val) >= META_TARGET_MAX THEN TargetErr("invalid rval size")
    ELSE [err |-> "",
          top |-> [NewTarget EXCEPT
                     !.md = [i \in 1..META_TARGET_MAX |->
                               IF i <= Len(val) THEN AsByte(val[i]) ELSE 0],
                     !.sz = Len(val),
                     !.cmp = cmp_op]]

\* The numeric arm of emit_target once the rhs was parsed.
NumTarget(lmo, long, cmp_op) ==
    IF ~long.ok THEN TargetErr(long.err)
    ELSE [err |-> "",
          top |-> [NewTarget EXCEPT
                     !.md = [i \in 1..META_TARGET_MAX |->
                               IF i <= 8 THEN long.val[i] ELSE 0],
                     !.sz = NumSize(lmo),
                     !.cmp = cmp_op]]

\* emit_target that takes any rhs for a string and reads a string as 0 for
\* a number.
emit_target_LaxKind(lmo, rval, cmp_op) ==
    IF is_ptr(lmo) \/ lmo.nmemb > 0
    THEN IF cmp_op # MetaCmp_Eq /\ cmp_op # MetaCmp_Ne
         THEN TargetErr("wrong comparison operator")
         ELSE StrTarget(rval.val, cmp_op)
    ELSE IF is_num(lmo)
    THEN NumTarget(lmo, IF rval.kind = "Str" THEN [ok |-> TRUE, val |-> Zero64, err |-> ""]
                        ELSE TargetLong(lmo, rval), cmp_op)
    ELSE [err |-> "", top |-> [NewTarget EXCEPT !.cmp = cmp_op]]

\* MetaOp::emit_target(lmo, rval, cmp_op): [err, top].
emit_target(lmo, rval, cmp_op) ==
    IF is_ptr(lmo) \/ lmo.nmemb > 0
    THEN IF cmp_op # MetaCmp_Eq /\ cmp_op # MetaCmp_Ne
         THEN TargetErr("wrong comparison operator")
         ELSE IF rval.kind = "Str" THEN StrTarget(rval.val, cmp_op)
         ELSE TargetErr("only strings are supported")
    ELSE IF is_num(lmo) THEN NumTarget(lmo, TargetLong(lmo, rval), cmp_op)
    ELSE [err |-> "", top |-> [NewTarget EXCEPT !.cmp = cmp_op]]

(***************************************************************************)
(* walk_btf_node and next_walkable                                         *)
(***************************************************************************)
NotFound == [found |-> FALSE, offset |-> 0, bfs |-> NoBf, type |-> "none"]

RECURSIVE WalkMembers(_, _, _, _)
\* The outcome of the recursion into an anonymous struct or union:
\* returned when the name was found there, else the loop continues.
WalkSub(members, node_name, offset, i, sub) ==
    IF sub.found THEN sub ELSE WalkMembers(members, node_name, offset, i + 1)

\* The body of `for member in members` for one member.
WalkMember(members, node_name, offset, i, member) ==
    IF member.name = node_name
    THEN [found |-> TRUE, offset |-> offset + member.bit_offset,
          bfs |-> member.bitfield_size, type |-> member.type]
    ELSE IF member.name = ""
    THEN IF IsAggregate(member.type)
         THEN WalkSub(members, node_name, offset, i,
                      WalkMembers(BtfType(member.type).members, node_name,
                                  offset + member.bit_offset, 1))
         ELSE NotFound
    ELSE WalkMembers(members, node_name, offset, i + 1)

\* The `for member in members` of walk_btf_node from member i on.
WalkMembers(members, node_name, offset, i) ==
    IF i > Len(members) THEN NotFound
    ELSE WalkMember(members, node_name, offset, i, members[i])

\* walk_btf_node on the record ty of the type.
WalkType(ty, node_name, offset) ==
    IF ty.kind \notin AggregateKinds THEN NotFound
    ELSE WalkMembers(ty.members, node_name, offset, 1)

\* walk_btf_node(btf, type, node_name, offset).
walk_btf_node(t, node_name, offset) == WalkType(BtfType(t), node_name, offset)

\* check_one_walkable that forgets to count a pointer.
check_one_walkable_NoCount(t, ind) ==
    CASE KindOf(t) = "Ptr"               -> [res |-> "skip", ind |-> ind]
      [] KindOf(t) \in AggregateKinds    -> [res |-> "walkable", ind |-> ind]
      [] KindOf(t) \in TransparentKinds  -> [res |-> "skip", ind |-> ind]
      [] OTHER                           -> [res |-> "bail", ind |-> ind]

\* FilterMeta::check_one_walkable: "walkable", "bail" or "skip" with the
\* indirection count after the call.
check_one_walkable(t, ind) ==
    CASE KindOf(t) = "Ptr"               -> [res |-> "skip", ind |-> ind + 1]
      [] KindOf(t) \in AggregateKinds    -> [res |-> "walkable", ind |-> ind]
      [] KindOf(t) \in TransparentKinds  -> [res |-> "skip", ind |-> ind]
      [] OTHER                           -> [res |-> "bail", ind |-> ind]

RECURSIVE NextWalkableIter(_, _)
\* What next_walkable does with the outcome c of check_one_walkable on x.
NextWalkableOn(x, c) ==
    CASE c.res = "bail"     -> [err |-> "unexpected type", ind |-> c.ind, type |-> x]
      [] c.res = "walkable" -> [err |-> "", ind |-> c.ind, type |-> x]
      [] OTHER              -> NextWalkableIter(TypeIterNext(x), c.ind)

\* The `for x in btf.type_iter(btf_type)` of next_walkable.
NextWalkableIter(x, ind) ==
    IF x = "none"
    THEN [err |-> "failed to retrieve next walkable", ind |-> ind, type |-> x]
    ELSE NextWalkableOn(x, check_one_walkable(x, ind))

\* FilterMeta::next_walkable(btf, type): [err, ind, type]; the early return
\* on a type that is walkable itself has ind = 0.
next_walkable(t) == NextWalkableOn(t, check_one_walkable(t, 0))

(***************************************************************************)
(* parse_mask, parse_filter                                                *)
(***************************************************************************)
\* The value of a mask, negated after the parse when it began with '~'.
MaskValue(r, not) == [ok |-> r.ok, val |-> IF r.ok /\ not THEN Not64(r.val) ELSE r.val]

\* parse_mask once the leading '~' was stripped.
ParseMaskNum(num, not) ==
    IF StartsWith(num, <<"0", "x">>) THEN MaskValue(ParseU64(Drop(num, 2), 16), not)
    ELSE FailedParse

\* FilterMeta::parse_mask(el): [ok, val].
parse_mask(el) ==
    IF StartsWith(el, <<"~">>) THEN ParseMaskNum(Drop(el, 1), TRUE)
    ELSE ParseMaskNum(el, FALSE)

\* A member text as a name to compare with BTF member names.  Member names
\* are single symbols; a text of several symbols is no member of the BTF.
MemberName(text) ==
    IF Len(text) = 0 THEN "" ELSE IF Len(text) = 1 THEN text[1] ELSE "?"

MaskedNode(member, m) == [ok |-> m.ok, member |-> MemberName(member), mask |-> m.val]

\* The closure mapped over lhs.split('.'), on x.split(':'): [ok, member, mask].
NodeOf(elem) ==
    IF Len(elem) >= 2 THEN MaskedNode(elem[1], parse_mask(elem[2]))
    ELSE [ok |-> TRUE, member |-> MemberName(elem[1]), mask |-> Zero64]

LhsNode(x) == NodeOf(Split(x, ":"))

LhsNodes(parts) == [i \in 1..Len(parts) |-> LhsNode(parts[i])]

\* A default operator other than the one of the code.
DefaultOp_Eq == <<"=", "=">>

\* The default operator and rhs of an lhs-only filter.
DefaultOp == <<"!", "=">>
DefaultRhs == <<"0">>

BadFilter(msg) == [err |-> msg, lhs |-> <<>>, op |-> -1, rhs |-> <<>>]

\* The end of parse_filter: MetaCmp::from_str(op)?.
ParseOp(lhs, op, rhs) ==
    IF op = -1 THEN BadFilter("unknown comparison operator")
    ELSE [err |-> "", lhs |-> lhs, op |-> op, rhs |-> rhs]

\* parse_filter once the three tokens are known.
ParseLhs(lhs, op_text, rhs_text) ==
    IF \E i \in 1..Len(lhs) : ~lhs[i].ok THEN BadFilter("invalid mask format")
    ELSE IF Len(lhs) <= 1 \/ lhs[1].member # "sk_buff" THEN BadFilter("invalid lhs")
    ELSE ParseOp(lhs, MetaCmp_from_str(op_text), rhs_text)

\* parse_filter on filter.split(' ').
ParseExpr(expr) ==
    IF Len(expr) = 3 THEN ParseLhs(LhsNodes(Split(expr[1], ".")), expr[2], expr[3])
    ELSE IF Len(expr) = 1 THEN ParseLhs(LhsNodes(Split(expr[1], ".")), DefaultOp, DefaultRhs)
    ELSE BadFilter("invalid filter")

\* FilterMeta::parse_filter(filter): [err, lhs, op, rhs].
parse_filter(filter) == ParseExpr(Split(filter, " "))

(***************************************************************************)
(* FilterMeta::from_string                                                 *)
(***************************************************************************)
\* Variant: the pointer Load keeps the offset in bits.
PtrLoad_Bits(offset, mask) ==
    [NewLoad EXCEPT !.offt = offset, !.type = PTR_BIT, !.mask = mask]

\* The Load pushed for a non-terminal field reached through one pointer.
PtrLoad(offset, mask) ==
    [NewLoad EXCEPT !.offt = offset \div 8, !.type = PTR_BIT, !.mask = mask]

\* The locals of from_string that the field loop updates.
WalkState(t, offt, stored_offset, stored_bf_size, mask, ops, err) ==
    [type |-> t, offt |-> offt, stored_offset |-> stored_offset,
     stored_bf_size |-> stored_bf_size, mask |-> mask, ops |-> ops, err |-> err]

WalkErr(st, msg) == [st EXCEPT !.err = msg]

\* stored_bf_size after a field: replaced only when the member has one.
StoredBf(sub_node, st) ==
    IF sub_node.bfs # NoBf THEN sub_node.bfs ELSE st.stored_bf_size

\* Variant: an embedded struct or union starts the offsets anew.
WalkIntermediate_NoAccumulate(field, st, sub_node, nw) ==
    IF nw.err # "" THEN WalkErr(st, nw.err)
    ELSE IF nw.ind = 1
    THEN IF sub_node.offset \div 8 > 65535 THEN WalkErr(st, "offt out of range")
         ELSE WalkState(nw.type, 0, sub_node.offset, StoredBf(sub_node, st), st.mask,
                        Append(st.ops, PtrLoad(sub_node.offset, field.mask)), "")
    ELSE IF nw.ind > 1 THEN WalkErr(st, "pointers of pointers are not supported")
    ELSE IF ~IsZero64(field.mask) THEN WalkErr(st, "mask for non-ptr intermediate members")
    ELSE WalkState(nw.type, 0, sub_node.offset, StoredBf(sub_node, st),
                   st.mask, st.ops, "")

\* A non-terminal field, nw being what next_walkable returned for it.
WalkIntermediate(field, st, sub_node, nw) ==
    IF nw.err # "" THEN WalkErr(st, nw.err)
    ELSE IF nw.ind = 1
    THEN IF sub_node.offset \div 8 > 65535 THEN WalkErr(st, "offt out of range")
         ELSE WalkState(nw.type, 0, sub_node.offset, StoredBf(sub_node, st), st.mask,
                        Append(st.ops, PtrLoad(sub_node.offset, field.mask)), "")
    ELSE IF nw.ind > 1 THEN WalkErr(st, "pointers of pointers are not supported")
    ELSE IF ~IsZero64(field.mask) THEN WalkErr(st, "mask for non-ptr intermediate members")
    ELSE WalkState(nw.type, sub_node.offset, sub_node.offset, StoredBf(sub_node, st),
                   st.mask, st.ops, "")

\* The `match sub_node` of the loop body.
WalkSubNode(field, terminal, st, sub_node) ==
    IF ~sub_node.found THEN WalkErr(st, "not found")
    ELSE IF ~terminal
    THEN WalkIntermediate(field, st, sub_node, next_walkable(sub_node.type))
    ELSE WalkState(sub_node.type, st.offt, sub_node.offset, StoredBf(sub_node, st),
                   field.mask, st.ops, "")

\* The body of `for (pos, field) in fields.iter().enumerate()` for the
\* field at pos (1-based), from the locals st.
WalkField(fields, pos, st) ==
    WalkSubNode(fields[pos], pos = Len(fields), st,
                walk_btf_node(st.type, fields[pos].member, st.offt))

RECURSIVE WalkFields(_, _, _)
\* The loop goes on unless the body returned an error.
WalkRest(fields, pos, st2) ==
    IF st2.err # "" THEN st2 ELSE WalkFields(fields, pos + 1, st2)

\* The field loop of from_string from position pos on.
WalkFields(fields, pos, st) ==
    IF pos > Len(fields) THEN st ELSE WalkRest(fields, pos, WalkField(fields, pos, st))

\* The field loop of from_string run from its initial locals on the fields
\* that follow sk_buff (fields.remove(0)).
Walk(lhs) ==
    WalkFields(Tail(lhs), 1, WalkState("sk_buff", 0, 0, 0, Zero64, <<>>, ""))

\* ops.push(lmo) after emit_load.
PushLoad(ops, lmo) ==
    IF lmo.err # "" THEN [err |-> lmo.err, ops |-> <<>>]
    ELSE [err |-> "", ops |-> Append(ops, lmo.lop)]

\* The terminal Load is emitted from the locals the loop left.
LoadsOfWalk(w) ==
    IF w.err # "" THEN [err |-> w.err, ops |-> <<>>]
    ELSE PushLoad(w.ops, emit_load(w.type, w.stored_offset, w.stored_bf_size, w.mask))

\* The Loads of from_string: the field loop, then emit_load pushed last.
Loads(lhs) == LoadsOfWalk(Walk(lhs))

\* InsertTarget with the Target pushed after the Loads.
InsertTarget_Push(ops, top) == Append(ops, top)

\* The operations in the order from_string returns them: the Target is
\* inserted at index 0, before the Loads.
InsertTarget(ops, top) == <<top>> \o ops

\* ops.insert(0, emit_target(..)?) and Ok(FilterMeta(ops)).
FromTarget(l, t) ==
    IF t.err # "" THEN Err(t.err) ELSE Ok(InsertTarget(l.ops, t.top))

\* Rval::from_str(rval)? then emit_target on the last Load.
FromRval(p, l, rval) ==
    IF rval.kind = "Panic" THEN Panic("slice index starts at 1 but ends at 0")
    ELSE FromTarget(l, emit_target(l.ops[Len(l.ops)], rval, p.op))

\* from_string once the Loads are known.
FromLoads(p, l) ==
    IF l.err # "" THEN Err(l.err) ELSE FromRval(p, l, Rval_from_str(p.rhs))

\* from_string once parse_filter returned.
FromParsed(p) ==
    IF p.err # "" THEN Err(p.err) ELSE FromLoads(p, Loads(p.lhs))

\* FilterMeta::from_string(fstring).
from_string(text) == FromParsed(parse_filter(text))

(***************************************************************************)
(* The filter texts the model compiles.                                    *)
(***************************************************************************)
\* Member names of the BTF above, a name no struct has, and the empty name.
AllNames ==
    {"", "cb", "cloned", "head", "users", "next", "dev", "tstamp", "pkt_type",
     "vlan_tci", "skb_iif", "mark", "headers", "refs",
     "counter", "name", "mtu", "perm_addr", "pcpu_refcnt", "reg_state", "_tx",
     "proto_down", "nosuch"}

\* The names worth drawing after a field of type t: those t has, and one it
\* has not.  After a field that cannot be walked only the latter is drawn,
\* since the walk stops before looking at what follows.
NamesIn(t) ==
    IF t = "none" THEN {"nosuch"}
    ELSE {n \in AllNames : walk_btf_node(t, n, 0).found} \cup {"nosuch"}

ReachWalkable(nw) == IF nw.err = "" /\ nw.ind <= 1 THEN nw.type ELSE "none"

ReachFound(w) == IF ~w.found THEN "none" ELSE ReachWalkable(next_walkable(w.type))

\* The struct the walk continues in after the non-terminal field n of t.
Reach(t, n) == IF t = "none" THEN "none" ELSE ReachFound(walk_btf_node(t, n, 0))

RECURSIVE PathsFrom(_, _)
\* The dotted paths of 1..n member names drawn from type t on.
PathsFrom(t, n) ==
    IF n = 0 THEN {}
    ELSE UNION { {<<m>>} \cup { <<m>> \o q : q \in PathsFrom(Reach(t, m), n - 1) }
                 : m \in NamesIn(t) }

Paths == PathsFrom("sk_buff", MaxFields)

\* Mask suffixes: a plain mask, a negated one, a zero one, one without 0x.
MaskTexts ==
    { <<"0", "x", "f", "f">>, <<"~", "0", "x", "0", "0">>, <<"0", "x", "0">>,
      <<"f", "f">> }

NameText(m) == IF m = "" THEN <<>> ELSE <<m>>

\* The component texts of the names, with the mask text mk on component k
\* (k = 0: no mask).
ComponentTexts(names, k, mk) ==
    [i \in 1..Len(names) |->
        NameText(names[i]) \o (IF i = k THEN <<":">> \o mk ELSE <<>>)]

\* The lhs text of a path after the first component `first`; k = 1 puts
\* the mask on `first` itself.
LhsText(first, path, k, mk) == Join(ComponentTexts(<<first>> \o path, k, mk), ".")

LhsPlain == { LhsText("sk_buff", p, 0, <<>>) : p \in Paths }

LhsMasked ==
    UNION { { LhsText("sk_buff", p, k, mk) : k \in 2..(Len(p) + 1), mk \in MaskTexts }
            : p \in Paths }

RECURSIVE Chain(_)
\* A chain of n `next` pointers.
Chain(n) == IF n = 0 THEN <<>> ELSE <<"next">> \o Chain(n - 1)

LhsDeep ==
    { LhsText("sk_buff", Chain(n) \o <<leaf>>, 0, <<>>) :
        n \in MaxFields..MaxChain, leaf \in {"mark", "cb", "users"} }

\* The lhs whose first component is not plain sk_buff, or that are too short.
LhsBadHead ==
    { LhsText(f, p, k, <<"0", "x", "f", "f">>) :
        f \in {"sk_buff", "dev", ""}, p \in {<<>>, <<"mark">>, <<"dev", "name">>},
        k \in {0, 1} }

OpTexts ==
    { <<"=", "=">>, <<"!", "=">>, <<"<">>, <<"<", "=">>, <<">">>, <<">", "=">>,
      <<"=">> }

RhsTexts ==
    { <<"0">>, <<"-", "1">>, <<"0", "x", "c", "0", "d", "e">>,
      <<"'", "a", "b", "'">>, <<"\"", "a", "b", "\"">>, <<"a", "b">>,
      <<"'">>, <<"\"">>, <<>>,
      <<"4", "2", "9", "4", "9", "6", "7", "2", "9", "6">> }

RECURSIVE Repeat(_, _)
\* The character c, n times.
Repeat(c, n) == IF n = 0 THEN <<>> ELSE <<c>> \o Repeat(c, n - 1)

\* Quoted strings of 0, META_TARGET_MAX - 1 and META_TARGET_MAX bytes.
RhsStrTexts ==
    { <<"'">> \o Repeat("a", n) \o <<"'">> :
        n \in {0, META_TARGET_MAX - 1, META_TARGET_MAX} }

Expr(lhs, op, rhs) == Join(<<lhs, op, rhs>>, " ")

\* lhs op rhs
Inputs3 ==
    { Expr(l, o, r) : l \in LhsPlain, o \in OpTexts, r \in RhsTexts }
    \cup { Expr(l, o, r) : l \in LhsMasked,
                           o \in { <<"=", "=">>, <<"<">> },
                           r \in { <<"1">>, <<"'", "a", "b", "'">> } }
    \cup { Expr(l, o, r) : l \in LhsDeep,
                           o \in { <<"=", "=">> },
                           r \in { <<"0">>, <<"'", "a", "b", "'">> } }
    \cup { Expr(l, o, r) : l \in LhsPlain,
                           o \in { <<"=", "=">>, <<"!", "=">>, <<"<">> },
                           r \in RhsStrTexts }

\* lhs only, and the texts of 2, 4 and 5 tokens
InputsOdd ==
    { Join(ts, " ") :
        ts \in UNION { { <<l>>, <<l, <<"=", "=">>, <<"0">> >>, <<l, <<"=", "=">> >>,
                         <<l, <<"=", "=">>, <<>>, <<"0">> >>,
                         <<l, <<>>, <<"=", "=">>, <<>>, <<"0">> >> }
                       : l \in LhsBadHead } }

Inputs == Inputs3 \cup InputsOdd \cup LhsPlain \cup LhsMasked

(***************************************************************************)
(* The state machine: a filter text is given, from_string compiles it.     *)
(***************************************************************************)
NoResult == [kind |-> "None", ops |-> <<>>, err |-> ""]

InitMeta ==
    /\ ovs = Idle
    /\ fstring \in Inputs
    /\ result = NoResult
    /\ pc = "input"
    /\ pkt = Idle /\ kev = Idle /\ bld = Idle /\ col = Idle

\* FilterMeta::from_string(fstring) is called and returns or panics.
Compile ==
    /\ pc = "input"
    /\ result' = from_string(fstring)
    /\ pc' = "done"
    /\ UNCHANGED <<fstring, pkt, kev, bld, col, ovs>>

NextMeta == Compile

SpecMeta == InitMeta /\ [][NextMeta]_vars

(***************************************************************************)
(* Vocabulary of the properties.                                           *)
(***************************************************************************)
TypeOK == result.kind \in {"None", "Ok", "Err", "Panic"}

Done == pc = "done"
Compiled == Done /\ result.kind = "Ok"

\* The text as the properties read it: space-separated tokens, the first
\* one dot-separated components, each with an optional ":mask" suffix.
Tokens == Split(fstring, " ")
Components == Split(Tokens[1], ".")
ComponentName(i) == MemberName(Split(Components[i], ":")[1])
HasMaskSuffix(i) == Len(Split(Components[i], ":")) >= 2
MaskSuffix(i) == Split(Components[i], ":")[2]
NFields == Len(Components) - 1
OpToken == IF Len(Tokens) = 3 THEN Tokens[2] ELSE <<"!", "=">>
RhsToken == IF Len(Tokens) = 3 THEN Tokens[3] ELSE <<"0">>
LastLoad == result.ops[Len(result.ops)]

\* The components without their masks.
PlainNodes ==
    [i \in 1..Len(Components) |->
        [ok |-> TRUE, member |-> ComponentName(i), mask |-> Zero64]]

Parsed == parse_filter(fstring)

\* The lhs parses and every field of it resolves to a terminal Load.
Resolves == Parsed.err = "" /\ Loads(Parsed.lhs).err = ""

LastOf(ops) == ops[Len(ops)]

\* The Load emit_load makes for the terminal field.
TerminalLoad == LastOf(Loads(Parsed.lhs).ops)

RECURSIVE PointerDepth(_)
\* The number of pointers in front of the struct or scalar a type names.
PointerDepth(t) ==
    CASE t = "none"          -> 0
      [] KindOf(t) = "Ptr"   -> 1 + PointerDepth(Referred(BtfType(t)))
      [] IsTransparent(t)    -> PointerDepth(Referred(BtfType(t)))
      [] OTHER               -> 0

RECURSIVE Aggregate(_)
\* The type with its pointers, typedefs and qualifiers stripped.
Aggregate(t) ==
    CASE t = "none"                        -> "none"
      [] KindOf(t) = "Ptr" \/ IsTransparent(t) -> Aggregate(Referred(BtfType(t)))
      [] OTHER                             -> t

RECURSIVE CountNonTerminal(_, _, _)
\* Among the non-terminal fields from component i on, resolved from type
\* t, the number whose member is behind exactly d pointers.
CountNonTerminal(t, i, d) ==
    IF i >= Len(Components) THEN 0
    ELSE LET m == walk_btf_node(t, ComponentName(i), 0).type
         IN  (IF PointerDepth(m) = d THEN 1 ELSE 0)
             + CountNonTerminal(Aggregate(m), i + 1, d)

PointerFields == CountNonTerminal("sk_buff", 2, 1)
EmbeddedFields == CountNonTerminal("sk_buff", 2, 0)

WalkedType(w) == IF w.err = "" THEN w.type ELSE "none"

\* The BTF type of the terminal field, masks left aside.
TerminalType ==
    IF Len(Components) < 2 \/ ComponentName(1) # "sk_buff" THEN "none"
    ELSE WalkedType(Walk(PlainNodes))

\* A byte array: a non-empty array of 1-byte integers.
IsByteArray(t) ==
    /\ t # "none"
    /\ KindOf(t) = "Array"
    /\ BtfType(t).len > 0
    /\ KindOf(BtfType(t).type) = "Int"
    /\ BtfType(BtfType(t).type).size = 1

(***************************************************************************)
(* Properties.                                                             *)
(***************************************************************************)
\* C1: a filter that compiles has at most META_OPS_MAX (32) operations,
\* the Target included; longer programs are refused.
C1_LengthBound == Compiled => Len(result.ops) <= META_OPS_MAX

\* C2: from_string returns Ok or Err on every text; it never panics.
C2_NeverPanics == Done => result.kind \in {"Ok", "Err"}

\* C3: a compiled program is one Target at index 0, then Loads only; the
\* last one is the terminal Load emit_load made, and every Load between
\* the Target and the last is a pointer Load (type = PTR_BIT, nmemb = 0,
\* bf_size = 0).
C3_ProgramShape ==
    Compiled =>
        /\ Len(result.ops) >= 2
        /\ result.ops[1].shape = "t"
        /\ LastLoad.shape = "l"
        /\ LastLoad = TerminalLoad
        /\ \A i \in 2..(Len(result.ops) - 1) :
              /\ result.ops[i].shape = "l"
              /\ result.ops[i].type = PTR_BIT
              /\ result.ops[i].nmemb = 0
              /\ result.ops[i].bf_size = 0

C3_Witness == Compiled /\ Len(result.ops) >= 4

\* C4: a compiled program has one operation per field after sk_buff plus
\* the Target, less one per non-terminal field that is an embedded struct
\* or union: 2 + the number of non-terminal pointer fields.
C4_ProgramLength ==
    Compiled =>
        /\ Len(result.ops) = NFields + 1 - EmbeddedFields
        /\ Len(result.ops) = 2 + PointerFields

C4_Witness == Compiled /\ PointerFields >= 1 /\ EmbeddedFields >= 1

\* C5: in a compiled program a Load with a non-zero mask is a pointer Load
\* or an unsigned numeric Load, and a mask written on the terminal field is
\* the mask of the terminal Load.
C5_MaskOnlyPtrOrUnsigned ==
    Compiled =>
        /\ \A i \in 2..Len(result.ops) :
              ~IsZero64(result.ops[i].mask) =>
                  \/ is_ptr(result.ops[i])
                  \/ (~is_signed(result.ops[i]) /\ is_num(result.ops[i]))
        /\ HasMaskSuffix(Len(Components)) =>
              LastLoad.mask = parse_mask(MaskSuffix(Len(Components))).val

C5_Witness ==
    Compiled /\ ~IsZero64(LastLoad.mask) /\ ~is_ptr(LastLoad) /\ is_int(LastLoad)

\* C6: a mask suffix on a terminal field that is a byte array is an error.
C6_MaskOnStringRejected ==
    (Done /\ Len(Tokens) \in {1, 3} /\ IsByteArray(TerminalType)
          /\ HasMaskSuffix(Len(Components)))
        => result.kind = "Err"

\* C7: a rhs that begins with '-' compiles only against a signed terminal
\* Load; against an unsigned one the filter is refused.
C7_NegativeNeedsSigned ==
    (Done /\ Len(Tokens) = 3 /\ StartsWith(RhsToken, <<"-">>)) =>
        /\ result.kind = "Ok" => is_signed(LastLoad)
        /\ (Resolves /\ ~is_signed(TerminalLoad)) => result.kind = "Err"

C7_Witness ==
    /\ Done
    /\ StartsWith(RhsToken, <<"-">>)
    /\ Resolves
    /\ is_num(TerminalLoad) /\ ~is_signed(TerminalLoad) /\ ~is_arr(TerminalLoad)
    /\ result.kind = "Err"

\* C8: a text whose number of space-separated tokens is neither 1 nor 3,
\* whose first component is not exactly sk_buff, or that has no field
\* after sk_buff, is refused.
C8_ParseRejects ==
    (Done /\ (\/ Len(Tokens) \notin {1, 3}
              \/ Components[1] # <<"sk_buff">>
              \/ Len(Components) < 2))
        => result.kind = "Err"

\* C9: a text of the lhs alone compiles exactly as `lhs != 0`, and when it
\* compiles the terminal Load is a plain number (no pointer, no array),
\* compared Ne against an all-zero md.
C9_LhsOnlyDesugars ==
    (Done /\ Len(Tokens) = 1) =>
        /\ result = from_string(fstring \o <<" ", "!", "=", " ", "0">>)
        /\ result.kind = "Ok" =>
              /\ is_num(LastLoad) /\ ~is_ptr(LastLoad) /\ ~is_arr(LastLoad)
              /\ result.ops[1].cmp = MetaCmp_Ne
              /\ \A i \in 1..META_TARGET_MAX : result.ops[1].md[i] = 0

C9_Witness == Compiled /\ Len(Tokens) = 1

\* C10: against a terminal Load that is a pointer or an array only == and
\* != are accepted; every other operator is an error, and an accepted one
\* is stored as Eq or Ne.
C10_StringComparators ==
    (Done /\ Len(Tokens) = 3 /\ Resolves
          /\ (is_ptr(TerminalLoad) \/ TerminalLoad.nmemb > 0)) =>
        /\ OpToken \notin { <<"=", "=">>, <<"!", "=">> } => result.kind = "Err"
        /\ result.kind = "Ok" =>
              /\ OpToken = <<"=", "=">> => result.ops[1].cmp = MetaCmp_Eq
              /\ OpToken = <<"!", "=">> => result.ops[1].cmp = MetaCmp_Ne

\* The rhs is a quoted string: a quote, the bytes, the same quote.
RhsIsQuoted ==
    Len(RhsToken) >= 2 /\ (Quoted(RhsToken, "'") \/ Quoted(RhsToken, "\""))

\* The rhs has no quote at both its ends.
RhsIsUnquoted == ~(Quoted(RhsToken, "'") \/ Quoted(RhsToken, "\""))

\* The byte length of a quoted rhs.
RhsStrLen == Len(RhsToken) - 2

\* The terminal Load is compared as a string / as a number.
StringTerminal == is_ptr(TerminalLoad) \/ TerminalLoad.nmemb > 0
NumericTerminal == ~StringTerminal /\ is_num(TerminalLoad)

RhsValue == TargetLong(TerminalLoad, Rval_from_str(RhsToken))

\* The width in bytes of the terminal Load.
TerminalWidth ==
    CASE is_byte(TerminalLoad)  -> 1
      [] is_short(TerminalLoad) -> 2
      [] is_int(TerminalLoad)   -> 4
      [] OTHER                  -> 8

\* C12: on a numeric terminal an rhs that parses as a 64-bit value
\* compiles whatever its size; sz is the width of the terminal and the
\* value is stored truncated: md[i] is byte i of the value below sz, and
\* zero from sz on.
C12_NumericTarget ==
    (Done /\ Len(Tokens) = 3 /\ Resolves /\ NumericTerminal
          /\ RhsIsUnquoted /\ RhsValue.ok) =>
        /\ result.kind = "Ok"
        /\ result.ops[1].sz = TerminalWidth
        /\ \A i \in 1..META_TARGET_MAX :
              result.ops[1].md[i] =
                  IF i <= TerminalWidth THEN RhsValue.val[i] ELSE 0

\* C13: an unquoted rhs on a string terminal and a quoted rhs on a numeric
\* terminal are refused, whatever the comparator.
C13_RhsKindMatches ==
    (Done /\ Len(Tokens) = 3 /\ Resolves) =>
        /\ (StringTerminal /\ RhsIsUnquoted) => result.kind = "Err"
        /\ (NumericTerminal /\ RhsIsQuoted) => result.kind = "Err"

C13_Witness ==
    /\ Done /\ Len(Tokens) = 3 /\ Resolves
    /\ NumericTerminal /\ RhsIsQuoted /\ OpToken = <<"<">>
    /\ result.kind = "Err"

(***************************************************************************)
(* FilterPacket (filters/packets/filter.rs).  pcap and the cBPF and eBPF   *)
(* program types are outside this file: what they return is an input.     *)
(***************************************************************************)
\* packet_filter_uapi::filter_type: L2, L3, and a value that is neither.
LayerTypes == {"L2", "L3", "other"}

\* How the collaborators answer one call of from_string_opt: whether
\* Capture::dead succeeds, the length of the cBPF program pcap compiles
\* (-1: a compile error), whether BpfProg::try_from accepts it, and the
\* length of the eBPF program eBpfProg::try_from lowers it to (-1: error).
PacketEnv ==
    [layer_type : LayerTypes,
     dead_ok    : BOOLEAN,
     cbpf       : {-1} \cup 1..MaxCbpf,
     bpfprog_ok : BOOLEAN,
     ebpf       : {-1} \cup 0..(FILTER_MAX_INSNS + MaxOver)]

\* An eBPF program: a sequence of instructions.
Insns(n) == [i \in 1..n |-> "insn"]

PktOk(prog) == [kind |-> "Ok", prog |-> prog, err |-> ""]
PktErr(msg) == [kind |-> "Err", prog |-> <<>>, err |-> msg]

\* The size test with the limit one instruction too high.
ExceedsMax_OffByOne(n) == n > FILTER_MAX_INSNS + 1

\* ebpf_filter.len() > FILTER_MAX_INSNS
ExceedsMax(n) == n > FILTER_MAX_INSNS

\* FilterPacket::from_string_opt(fstring, layer_type) with the answers e.
from_string_opt(e) ==
    IF e.layer_type \notin {"L2", "L3"} THEN PktErr("Unsupported filter type")
    ELSE IF ~e.dead_ok THEN PktErr("Capture::dead")
    ELSE IF e.cbpf = -1 THEN PktErr("Could not compile the filter")
    ELSE IF ~e.bpfprog_ok THEN PktErr("BpfProg::try_from")
    ELSE IF e.ebpf = -1 THEN PktErr("eBpfProg::try_from")
    ELSE IF ExceedsMax(e.ebpf) THEN PktErr("Filter exceeds the maximum allowed size.")
    ELSE PktOk(Insns(e.ebpf))

\* FilterPacket::reject_filter(): the single instruction mov32 R0, 0.
reject_filter == PktOk(<<"mov32 R0, 0">>)

NoPacket == [kind |-> "None", prog |-> <<>>, err |-> ""]

InitPacket ==
    /\ ovs = Idle
    /\ pkt \in [env : PacketEnv, pc : {"input"}, call : {"none"}, result : {NoPacket}]
    /\ fstring = <<>> /\ result = NoResult /\ pc = Idle
    /\ kev = Idle /\ bld = Idle /\ col = Idle

\* from_string_opt is called and returns.
FromStringOpt ==
    /\ pkt.pc = "input"
    /\ pkt' = [pkt EXCEPT !.pc = "done", !.call = "from_string_opt",
                          !.result = from_string_opt(pkt.env)]
    /\ UNCHANGED <<metaVars, kev, bld, col, ovs>>

\* reject_filter is called and returns.
RejectFilter ==
    /\ pkt.pc = "input"
    /\ pkt' = [pkt EXCEPT !.pc = "done", !.call = "reject_filter",
                          !.result = reject_filter]
    /\ UNCHANGED <<metaVars, kev, bld, col, ovs>>

NextPacket == FromStringOpt \/ RejectFilter

SpecPacket == InitPacket /\ [][NextPacket]_vars

PktDone == pkt.pc = "done"

\* C14: a FilterPacket has at most FILTER_MAX_INSNS instructions: a lowered
\* program of exactly FILTER_MAX_INSNS is accepted, a longer one refused;
\* a layer type other than L2 and L3 is refused whatever the collaborators
\* would answer; the reject-all program is the one instruction R0 = 0.
C14_InsnBound ==
    PktDone =>
        /\ pkt.result.kind = "Ok" => Len(pkt.result.prog) <= FILTER_MAX_INSNS
        /\ pkt.call = "from_string_opt" =>
              /\ pkt.env.layer_type \notin {"L2", "L3"} =>
                    pkt.result = PktErr("Unsupported filter type")
              /\ pkt.env.ebpf > FILTER_MAX_INSNS => pkt.result.kind = "Err"
              /\ (/\ pkt.env.layer_type \in {"L2", "L3"} /\ pkt.env.dead_ok
                  /\ pkt.env.cbpf # -1 /\ pkt.env.bpfprog_ok
                  /\ pkt.env.ebpf \in 0..FILTER_MAX_INSNS)
                    => /\ pkt.result.kind = "Ok"
                       /\ Len(pkt.result.prog) = pkt.env.ebpf
        /\ pkt.call = "reject_filter" =>
              pkt.result.kind = "Ok" /\ pkt.result.prog = <<"mov32 R0, 0">>

C14_Witness ==
    /\ PktDone /\ pkt.call = "from_string_opt"
    /\ pkt.result.kind = "Ok" /\ Len(pkt.result.prog) = FILTER_MAX_INSNS

(***************************************************************************)
(* KernelEventFactory (src/core/probe/kernel/kernel.rs), the build that is *)
(* not the test build.  A section is its header's data_type and its data, *)
(* a sequence of bytes.                                                    *)
(***************************************************************************)
\* Addresses: two the symbol registry knows, one it does not.
AddrKfree == <<16, 32, 0, 0, 0, 0, 0, 0>>
AddrConsume == <<0, 0, 0, 128, 255, 255, 255, 255>>
AddrUnknown == <<1, 0, 0, 0, 0, 0, 0, 0>>

\* Symbol::from_addr(addr)?.name(): the name, "" when the registry does
\* not know the address.
SymbolNameOf(addr) ==
    CASE addr = AddrKfree   -> "kfree_skb"
      [] addr = AddrConsume -> "consume_skb"
      [] OTHER              -> ""

\* Stack ids as the 8 bytes of an i64: 0, 5, i32::MAX, 2^31, 2^32,
\* 2^32 + 2^31, i64::MAX, -1, -2^32 + 5, -2^31 - 1, i64::MIN.
StackIds ==
    { <<0, 0, 0, 0, 0, 0, 0, 0>>, <<5, 0, 0, 0, 0, 0, 0, 0>>,
      <<255, 255, 255, 127, 0, 0, 0, 0>>, <<0, 0, 0, 128, 0, 0, 0, 0>>,
      <<0, 0, 0, 0, 1, 0, 0, 0>>, <<0, 0, 0, 128, 1, 0, 0, 0>>,
      <<255, 255, 255, 255, 255, 255, 255, 127>>,
      <<255, 255, 255, 255, 255, 255, 255, 255>>,
      <<5, 0, 0, 0, 255, 255, 255, 255>>,
      <<255, 255, 255, 127, 255, 255, 255, 255>>,
      <<0, 0, 0, 0, 0, 0, 0, 128>> }

\* The data of well-sized sections, and some one byte short or long.
SectionData ==
    { a \o <<k>> \o id : a \in {AddrKfree, AddrConsume, AddrUnknown},
                         k \in {0, 1, 2, 3, 255}, id \in StackIds }
    \cup { AddrKfree \o <<k>> \o <<5, 0, 0, 0, 0, 0, 0>> : k \in {0, 3} }
    \cup { AddrKfree \o <<k>> \o <<5, 0, 0, 0, 0, 0, 0, 0, 0>> : k \in {0, 3} }
    \cup { <<>> }

RawSection(data_type, data) == [data_type |-> data_type, data |-> data]

\* The vectors of raw sections handed to from_raw: one section, none, two.
RawSectionVecs ==
    { <<RawSection(1, d)>> : d \in SectionData }
    \cup { <<RawSection(t, AddrKfree \o <<k>> \o id)>> :
              t \in {0, 2}, k \in {0, 3}, id \in StackIds }
    \cup { <<>> }
    \cup { <<RawSection(1, AddrKfree \o <<0>> \o id),
             RawSection(t, AddrKfree \o <<1>> \o id)>> :
              t \in {1, 2}, id \in StackIds }

\* The stacks of the stack map: 64-bit program counters, by a small number
\* each; 0 ends a stack, 9 is a counter near no symbol.  NoStack is the
\* answer for a key the map has no entry for.
NoStack == <<-1>>
StackMaps ==
    { [key \in {<<0, 0, 0, 0>>, <<5, 0, 0, 0>>, <<255, 255, 255, 127>>} |-> NoStack],
      [key \in {<<0, 0, 0, 0>>, <<5, 0, 0, 0>>, <<255, 255, 255, 127>>} |->
          IF key = <<5, 0, 0, 0>> THEN <<1, 9, 0, 2>> ELSE NoStack],
      [key \in {<<0, 0, 0, 0>>, <<5, 0, 0, 0>>, <<255, 255, 255, 127>>} |->
          IF key = <<0, 0, 0, 0>> THEN <<>> ELSE <<3>>] }

\* What the factory holds and what a lookup answers: the stack map (or
\* that there is none), and whether the lookup fails.
KernelEnv ==
    [has_map : BOOLEAN, stack_map : StackMaps, lookup_fails : BOOLEAN]

\* Option<Vec<String>>
None == [some |-> FALSE, frames |-> <<>>]
Some(frames) == [some |-> TRUE, frames |-> frames]

\* KernelEvent::default()
DefaultKernelEvent == [symbol |-> "", probe_type |-> "", stack_trace |-> None]

KevOk(event, lookups) ==
    [kind |-> "Ok", event |-> event, err |-> "", lookups |-> lookups]
KevErr(msg, lookups) ==
    [kind |-> "Err", event |-> DefaultKernelEvent, err |-> msg, lookups |-> lookups]
KevPanic(msg) ==
    [kind |-> "Panic", event |-> DefaultKernelEvent, err |-> msg, lookups |-> <<>>]

\* A frame of the trace: "symbol+0xoffset", or "0xPC" when
\* get_name_offt_from_addr_near fails.
Frame(sym) == IF sym = 9 THEN <<"0x", sym>> ELSE <<"symbol+0x", sym>>

RECURSIVE Frames(_, _)
\* `for sym in sstack`, from index i on: stops at the first 0.
Frames(sstack, i) ==
    IF i > Len(sstack) \/ sstack[i] = 0 THEN <<>>
    ELSE <<Frame(sstack[i])>> \o Frames(sstack, i + 1)

\* stack_trace after `if let Some(stack_bytes) = ..lookup(..)?`.
TraceOf(found) == IF found = NoStack THEN <<>> ELSE Frames(found, 1)

\* `i64 as i32 >= 0` on the 8 bytes: the sign bit of the low 4 bytes.
I32NonNegative(id) == id[4] < 128

\* stackid.to_ne_bytes(): the 4 bytes of the i32.
StackKey(id) == SubSeq(id, 1, 4)

\* KernelEventFactory::unmarshal_stackid(event, stackid), id being the
\* bytes 9..17 the i32 is cast from.  The outcome records the keys looked
\* up in the stack map.
unmarshal_stackid(e, event, id) ==
    IF ~I32NonNegative(id) THEN KevOk(event, <<>>)
    ELSE IF ~e.has_map THEN KevPanic("Stack map is None")
    ELSE IF e.lookup_fails THEN KevErr("lookup", <<StackKey(id)>>)
    ELSE KevOk([event EXCEPT !.stack_trace =
                    Some(TraceOf(e.stack_map[StackKey(id)]))],
               <<StackKey(id)>>)

\* ProbeTypeOf that takes an unknown kind byte for a kprobe.
ProbeTypeOf_Lax(x) ==
    CASE x = 1 -> "kretprobe"
      [] x = 2 -> "raw_tracepoint"
      [] OTHER -> "kprobe"

\* The probe type of a kind byte, "" for an unknown one.
ProbeTypeOf(x) ==
    CASE x = 0 -> "kprobe"
      [] x = 1 -> "kretprobe"
      [] x = 2 -> "raw_tracepoint"
      [] OTHER -> ""

\* from_raw once the section has the right type and size.
FromRawData(e, data, name, probe_type) ==
    IF name = "" THEN KevErr("Symbol::from_addr", <<>>)
    ELSE IF probe_type = "" THEN KevErr("Unknown probe type", <<>>)
    ELSE unmarshal_stackid(e, [DefaultKernelEvent EXCEPT !.symbol = name,
                                                        !.probe_type = probe_type],
                           SubSeq(data, 10, 17))

\* from_raw on the section popped from the vector.
FromRawSection(e, raw) ==
    IF raw.data_type # 1 THEN KevErr("Unknown data type", <<>>)
    ELSE IF Len(raw.data) # 17 THEN KevErr("Section data is not the expected size", <<>>)
    ELSE FromRawData(e, raw.data, SymbolNameOf(SubSeq(raw.data, 1, 8)),
                     ProbeTypeOf(raw.data[9]))

\* KernelEventFactory::from_raw(raw_sections).
from_raw(e, raw_sections) ==
    IF Len(raw_sections) # 1
    THEN KevErr("Kernel event from BPF must be a single section", <<>>)
    ELSE FromRawSection(e, raw_sections[Len(raw_sections)])

NoKev == [kind |-> "None", event |-> DefaultKernelEvent, err |-> "", lookups |-> <<>>]

InitKernel ==
    /\ ovs = Idle
    /\ kev \in [env : KernelEnv, raw_sections : RawSectionVecs,
                pc : {"input"}, result : {NoKev}]
    /\ fstring = <<>> /\ result = NoResult /\ pc = Idle
    /\ pkt = Idle /\ bld = Idle /\ col = Idle

\* from_raw is called and returns or panics.
FromRaw ==
    /\ kev.pc = "input"
    /\ kev' = [kev EXCEPT !.pc = "done",
                          !.result = from_raw(kev.env, kev.raw_sections)]
    /\ UNCHANGED <<metaVars, pkt, bld, col, ovs>>

NextKernel == FromRaw

SpecKernel == InitKernel /\ [][NextKernel]_vars

KevDone == kev.pc = "done"

\* The single section of the call, when there is exactly one.
OneSection == Len(kev.raw_sections) = 1
TheSection == kev.raw_sections[1]
KnownAddrs == {AddrKfree, AddrConsume}

\* The section is one from_raw decodes up to the stack id.
SectionDecodes ==
    /\ OneSection
    /\ TheSection.data_type = 1
    /\ Len(TheSection.data) = 17
    /\ SubSeq(TheSection.data, 1, 8) \in KnownAddrs
    /\ TheSection.data[9] \in {0, 1, 2}

\* Bytes 9..17 of the section, and the sign of the i64 they hold.
StackIdBytes == SubSeq(TheSection.data, 10, 17)
StackIdNonNegative == StackIdBytes[8] < 128

\* C15: from_raw returns an error, and no event, when the sections are not
\* exactly one, the data_type is not 1, the data is not 17 bytes, the
\* address is unknown or byte 8 is not 0, 1 or 2; an event it returns has
\* the probe type of byte 8: kprobe, kretprobe, raw_tracepoint.
C15_FromRawErrors ==
    KevDone =>
        /\ ~SectionDecodes =>
              kev.result.kind = "Err" /\ kev.result.event = DefaultKernelEvent
        /\ kev.result.kind = "Ok" =>
              /\ SectionDecodes
              /\ TheSection.data[9] = 0 => kev.result.event.probe_type = "kprobe"
              /\ TheSection.data[9] = 1 => kev.result.event.probe_type = "kretprobe"
              /\ TheSection.data[9] = 2 => kev.result.event.probe_type = "raw_tracepoint"

C15_Witness ==
    /\ KevDone /\ OneSection
    /\ TheSection.data_type = 1 /\ Len(TheSection.data) = 17
    /\ SubSeq(TheSection.data, 1, 8) \in KnownAddrs
    /\ TheSection.data[9] = 255
    /\ kev.result.kind = "Err"

\* C16: the stack map is looked up, and a stack trace attached, iff the
\* signed 64-bit value of bytes 9..17 is >= 0.
C16_LookupIffNonNegative ==
    (KevDone /\ SectionDecodes /\ kev.env.has_map) =>
        /\ Len(kev.result.lookups) = 1 <=> StackIdNonNegative
        /\ kev.result.kind = "Ok" =>
              (kev.result.event.stack_trace.some <=> StackIdNonNegative)

\* The stack id is >= 0 and a key of the map (an i32).
StackIdIsKey ==
    StackIdNonNegative /\ StackIdBytes[4] < 128 /\ SubSeq(StackIdBytes, 5, 8) = <<0, 0, 0, 0>>

\* C17: when the stack id is >= 0 and the stack map has no entry for it,
\* decoding succeeds and the event has no stack trace, as an event with a
\* negative stack id.
C17_MissGivesNoTrace ==
    (/\ KevDone /\ SectionDecodes /\ kev.env.has_map /\ ~kev.env.lookup_fails
     /\ StackIdIsKey
     /\ kev.env.stack_map[SubSeq(StackIdBytes, 1, 4)] = NoStack) =>
        /\ kev.result.kind = "Ok"
        /\ kev.result.event.stack_trace = None

(***************************************************************************)
(* RawTracepointBuilder (probe/kernel/raw_tracepoint.rs).  The skeleton,   *)
(* libbpf and the hook helpers are outside this file: which of their calls *)
(* fails is an input of attach.  A loaded object is a number; `loaded` is  *)
(* the set of the objects loaded and not yet dropped, `next` the number    *)
(* the next loaded object gets.                                            *)
(***************************************************************************)
\* RawTracepointBuilder::default(): no hooks, no links, skel None (0).
NewBuilder ==
    [hooks |-> <<>>, links |-> <<>>, skel |-> 0, map_fds |-> <<>>,
     loaded |-> {}, next |-> 1]

RECURSIVE HookList(_)
\* The hooks 1..n.
HookList(n) == IF n = 0 THEN <<>> ELSE Append(HookList(n - 1), n)

HookLists == { HookList(n) : n \in 0..MaxHooks }
MapFdLists == { <<>>, << <<"events_map", 3>> >> }

Probes ==
    [type : {"RawTracepoint", "Kprobe"},
     symbol : {"skb:kfree_skb", "skb:consume_skb"}]

\* The call of attach that fails, in the order attach makes them; "none"
\* when all succeed.
FailStages ==
    {"open", "addr", "nargs", "reuse", "load", "find", "hooks", "bind", "none"}

\* Symbol::attach_name(): the event name without its subsystem.
AttachName(symbol) ==
    CASE symbol = "skb:kfree_skb"   -> "kfree_skb"
      [] symbol = "skb:consume_skb" -> "consume_skb"
      [] OTHER                      -> symbol

\* The links replace_hooks returns: one per hook, on the program of obj.
HookLinks(hooks, obj) ==
    [i \in 1..Len(hooks) |-> [kind |-> "hook", what |-> hooks[i], obj |-> obj]]

\* The link attach_raw_tracepoint returns.
TpLink(probe, obj) ==
    [kind |-> "tp", what |-> AttachName(probe.symbol), obj |-> obj]

BuilderRet(st, ret, obj) == [st |-> st, ret |-> ret, obj |-> obj]

\* A SkelStorage goes out of scope: its object is no longer loaded.
DropSkel(st, obj) == [st EXCEPT !.loaded = @ \ {obj}]

\* self.skel = Some(skel): the value it replaces is dropped.
SetSkel(st, obj) == [st EXCEPT !.skel = obj, !.loaded = @ \ {st.skel}]

\* attach from SkelStorage::load(skel) returning obj on.
AttachLoaded(st, obj, probe, fail) ==
    IF fail \in {"find", "hooks"} THEN BuilderRet(DropSkel(st, obj), "Err", 0)
    ELSE IF fail = "bind"
    THEN BuilderRet(DropSkel([st EXCEPT !.links = @ \o HookLinks(st.hooks, obj)], obj),
                    "Err", 0)
    ELSE BuilderRet(SetSkel([st EXCEPT !.links = @ \o HookLinks(st.hooks, obj)
                                                   \o <<TpLink(probe, obj)>>], obj),
                    "Ok", obj)

\* Variant: the probe's kind is looked at after the program is loaded and
\* the hooks are spliced.
attach_LateCheck(st, probe, fail) ==
    IF fail \in {"open", "addr", "nargs", "reuse", "load"} THEN BuilderRet(st, "Err", 0)
    ELSE IF probe.type # "RawTracepoint"
    THEN BuilderRet([st EXCEPT !.links = @ \o HookLinks(st.hooks, st.next)], "Err", 0)
    ELSE AttachLoaded([st EXCEPT !.loaded = @ \cup {st.next}, !.next = @ + 1],
                      st.next, probe, fail)

\* RawTracepointBuilder::attach(probe), `fail` being the call that fails.
attach(st, probe, fail) ==
    IF fail = "open" THEN BuilderRet(st, "Err", 0)
    ELSE IF probe.type # "RawTracepoint" THEN BuilderRet(st, "Err", 0)
    ELSE IF fail \in {"addr", "nargs", "reuse", "load"} THEN BuilderRet(st, "Err", 0)
    ELSE AttachLoaded([st EXCEPT !.loaded = @ \cup {st.next}, !.next = @ + 1],
                      st.next, probe, fail)

\* RawTracepointBuilder::init(map_fds, hooks).
init(st, map_fds, hooks) ==
    BuilderRet([st EXCEPT !.map_fds = map_fds, !.hooks = hooks], "Ok", 0)

\* detach that drops the first link only.
detach_First(st) ==
    BuilderRet([st EXCEPT !.links = IF Len(@) = 0 THEN @ ELSE Tail(@)], "Ok", 0)

\* RawTracepointBuilder::detach(): self.links.drain(..).
detach(st) == BuilderRet([st EXCEPT !.links = <<>>], "Ok", 0)

\* The builder after a call, with the call added to the log of the calls.
Called(b, op, arg, r) ==
    [st |-> r.st, ret |-> r.ret,
     log |-> Append(b.log, [op |-> op, arg |-> arg, ret |-> r.ret, obj |-> r.obj])]

InitBuilder ==
    /\ ovs = Idle
    /\ bld = [st |-> NewBuilder, ret |-> "none", log |-> <<>>]
    /\ fstring = <<>> /\ result = NoResult /\ pc = Idle
    /\ pkt = Idle /\ kev = Idle /\ col = Idle

BuilderInit ==
    /\ Len(bld.log) < MaxCalls
    /\ \E map_fds \in MapFdLists, hooks \in HookLists :
          bld' = Called(bld, "init", "", init(bld.st, map_fds, hooks))
    /\ UNCHANGED <<metaVars, pkt, kev, col, ovs>>

BuilderAttach ==
    /\ Len(bld.log) < MaxCalls
    /\ \E probe \in Probes, fail \in FailStages :
          bld' = Called(bld, "attach", probe.type, attach(bld.st, probe, fail))
    /\ UNCHANGED <<metaVars, pkt, kev, col, ovs>>

BuilderDetach ==
    /\ Len(bld.log) < MaxCalls
    /\ bld' = Called(bld, "detach", "", detach(bld.st))
    /\ UNCHANGED <<metaVars, pkt, kev, col, ovs>>

NextBuilder == BuilderInit \/ BuilderAttach \/ BuilderDetach

SpecBuilder == InitBuilder /\ [][NextBuilder]_vars

\* The calls since the last detach.
RECURSIVE SinceDetach(_)
SinceDetach(log) ==
    IF Len(log) = 0 \/ log[Len(log)].op = "detach" THEN <<>>
    ELSE Append(SinceDetach(SubSeq(log, 1, Len(log) - 1)), log[Len(log)])

\* The objects of the attach calls of a log, all of which succeeded.
AttachedObjs(log) == { log[i].obj : i \in { j \in 1..Len(log) : log[j].op = "attach" } }
AllAttachOk(log) == \A i \in 1..Len(log) : log[i].op = "attach" => log[i].ret = "Ok"

\* C18: after successful attach calls with no detach in between the
\* builder holds the link and the loaded object of every probe attached,
\* and no object is dropped while the builder holds a link on it.
C18_HoldsEveryObject ==
    AllAttachOk(SinceDetach(bld.log)) =>
        /\ \A o \in AttachedObjs(SinceDetach(bld.log)) :
              /\ o \in bld.st.loaded
              /\ \E i \in 1..Len(bld.st.links) :
                    bld.st.links[i].kind = "tp" /\ bld.st.links[i].obj = o
        /\ \A i \in 1..Len(bld.st.links) : bld.st.links[i].obj \in bld.st.loaded

\* C19: detach returns Ok and leaves the builder without links, and a
\* detach on the builder it leaves changes nothing of it.
C19_DetachIdempotent ==
    [][BuilderDetach =>
          /\ bld'.ret = "Ok"
          /\ bld'.st.links = <<>>
          /\ detach(bld'.st).st = bld'.st
          /\ (bld.ret = "Ok" /\ Len(bld.log) > 0 /\ bld.log[Len(bld.log)].op = "detach")
                => bld'.st = bld.st]_vars

C19_Witness ==
    /\ Len(bld.log) >= 3
    /\ bld.log[Len(bld.log)].op = "detach"
    /\ bld.log[Len(bld.log) - 1].op = "detach"
    /\ \E i \in 1..Len(bld.log) : bld.log[i].op = "attach" /\ bld.log[i].ret = "Ok"

(***************************************************************************)
(* Collectors (src/collector/collector.rs).  The group, the events and the *)
(* probe manager are outside this file: whether their calls fail is an     *)
(* input of each step, and the manager's attach is the builder's init and  *)
(* attach over the probes the collectors registered.                       *)
(***************************************************************************)
RawTracepoints == { p \in Probes : p.type = "RawTracepoint" }

\* The probes the collectors register in their init: up to MaxProbes.
ProbeLists ==
    UNION { [1..n -> RawTracepoints] : n \in 0..MaxProbes }

NewCollectors ==
    [pc |-> "new", ret |-> "none", failed_at |-> "", steps |-> <<>>,
     probes |-> <<>>, hooks |-> <<>>, emitted |-> 0,
     ring |-> "", arrivals |-> <<>>, handled |-> <<>>, shutdown |-> FALSE]

\* A step returned Ok: the next statement is at pc.
StepOk(c, step, next_pc) ==
    [c EXCEPT !.pc = next_pc, !.steps = Append(@, step)]

\* A step returned Err: `?` returns it from the function.
StepErr(c, step) ==
    [c EXCEPT !.pc = "returned", !.ret = "Err", !.failed_at = step]

\* Variant: the error of a call is recorded but the function goes on.
StepResult_Continue(c, step, next_pc, ok) ==
    IF ok THEN StepOk(c, step, next_pc)
    ELSE [StepOk(c, step, next_pc) EXCEPT !.ret = "Err", !.failed_at = step]

StepResult(c, step, next_pc, ok) ==
    IF ok THEN StepOk(c, step, next_pc) ELSE StepErr(c, step)

InitCollect ==
    /\ ovs = Idle
    /\ col = NewCollectors
    /\ bld = [st |-> NewBuilder, ret |-> "none", log |-> <<>>]
    /\ fstring = <<>> /\ result = NoResult /\ pc = Idle
    /\ pkt = Idle /\ kev = Idle

\* Collectors::new(): the collectors are registered, then BpfEvents::new,
\* then probe::Kernel::new(&events).
CollectorsNew ==
    /\ col.pc = "new"
    /\ \E fail \in {"register", "events", "kernel", "none"} :
          col' = IF fail = "none"
                 THEN [col EXCEPT !.pc = "cli",
                                  !.steps = @ \o <<"register", "events", "kernel">>]
                 ELSE IF fail = "events"
                 THEN StepErr([col EXCEPT !.steps = @ \o <<"register">>], fail)
                 ELSE IF fail = "kernel"
                 THEN StepErr([col EXCEPT !.steps = @ \o <<"register", "events">>], fail)
                 ELSE StepErr(col, fail)
    /\ UNCHANGED <<metaVars, pkt, kev, bld, ovs>>

\* init_and_collect: the subcommand is downcast and set_ebpf_debug called.
ProcessCli ==
    /\ col.pc = "cli"
    /\ \E ok \in BOOLEAN : col' = StepResult(col, "cli", "init", ok)
    /\ UNCHANGED <<metaVars, pkt, kev, bld, ovs>>

\* self.group.init(cli, &mut self.kernel, &mut self.events)?: the
\* collectors register their probes and hooks.
GroupInit ==
    /\ col.pc = "init"
    /\ \E ok \in BOOLEAN, probes \in ProbeLists, hooks \in HookLists :
          col' = IF ok
                 THEN [StepOk(col, "init", "polling") EXCEPT !.probes = probes,
                                                             !.hooks = hooks]
                 ELSE StepErr(col, "init")
    /\ UNCHANGED <<metaVars, pkt, kev, bld, ovs>>

\* self.events.start_polling()?
StartPolling ==
    /\ col.pc = "polling"
    /\ \E ok \in BOOLEAN : col' = StepResult(col, "polling", "attach", ok)
    /\ UNCHANGED <<metaVars, pkt, kev, bld, ovs>>

RECURSIVE AttachAll(_, _, _, _, _)
\* The manager goes to the next probe unless the attach failed.
AttachNext(b, probes, i, fail_at, fail) ==
    IF b.ret = "Err" THEN b ELSE AttachAll(b, probes, i + 1, fail_at, fail)

\* The manager attaches the probes from the i-th on; the attach of probe
\* fail_at fails in the call `fail`.
AttachAll(b, probes, i, fail_at, fail) ==
    IF i > Len(probes) THEN b
    ELSE AttachNext(Called(b, "attach", probes[i].type,
                           attach(b.st, probes[i], IF i = fail_at THEN fail ELSE "none")),
                    probes, i, fail_at, fail)

\* self.kernel.attach()?: the builder is given the hooks, then every probe
\* is attached; the first error is returned.
KernelAttach ==
    /\ col.pc = "attach"
    /\ \E fail_at \in 0..Len(col.probes), fail \in FailStages \ {"none"} :
          /\ bld' = AttachAll(Called(bld, "init", "", init(bld.st, <<>>, col.hooks)),
                              col.probes, 1, fail_at, fail)
          /\ col' = StepResult(col, "attach", "start", fail_at = 0)
    /\ UNCHANGED <<metaVars, pkt, kev, ovs>>

\* self.group.start()?
GroupStart ==
    /\ col.pc = "start"
    /\ \E ok \in BOOLEAN : col' = StepResult(col, "start", "loop", ok)
    /\ UNCHANGED <<metaVars, pkt, kev, bld, ovs>>

\* What the event ring can deliver to a blocked poll: a raw event that
\* decodes, a raw event that does not, or a failure of the ring itself.
ArrivalKinds == {"event", "undecodable", "error"}

\* The ring delivers something while the loop waits in poll.
Arrive ==
    /\ col.pc = "loop"
    /\ col.ring = ""
    /\ Len(col.arrivals) < MaxEvents
    /\ \E kind \in ArrivalKinds :
          col' = [col EXCEPT !.ring = kind, !.arrivals = Append(@, kind)]
    /\ UNCHANGED <<metaVars, pkt, kev, bld, ovs>>

\* Variant: the decode error is returned by poll and `?` returns it.
drop_event_Return(c) ==
    StepErr(c, "poll")

\* The event consumer logs the decode error and drops the raw event; poll
\* keeps waiting.
drop_event(c) ==
    [c EXCEPT !.ring = "", !.handled = Append(@, "dropped")]

\* A raw event that does not decode is dropped inside the event consumer.
DropUndecodable ==
    /\ col.pc = "loop"
    /\ col.ring = "undecodable"
    /\ col' = drop_event(col)
    /\ UNCHANGED <<metaVars, pkt, kev, bld, ovs>>

\* One turn of the loop: self.events.poll()? and the event printed.
Poll ==
    /\ col.pc = "loop"
    /\ col.ring \in {"event", "error"}
    /\ col' = IF col.ring = "event"
              THEN [col EXCEPT !.ring = "", !.emitted = @ + 1,
                               !.handled = Append(@, "event")]
              ELSE StepErr(col, "poll")
    /\ UNCHANGED <<metaVars, pkt, kev, bld, ovs>>

\* A shutdown signal is delivered to the process.
Shutdown ==
    /\ col.pc # "returned"
    /\ ~col.shutdown
    /\ col' = [col EXCEPT !.shutdown = TRUE]
    /\ UNCHANGED <<metaVars, pkt, kev, bld, ovs>>

\* The statements of Collectors::new and init_and_collect.
ProgramCollect ==
    \/ CollectorsNew \/ ProcessCli \/ GroupInit \/ StartPolling
    \/ KernelAttach \/ GroupStart \/ DropUndecodable \/ Poll

NextCollect ==
    \/ CollectorsNew \/ ProcessCli \/ GroupInit \/ StartPolling
    \/ KernelAttach \/ GroupStart \/ Arrive \/ DropUndecodable \/ Poll
    \/ Shutdown

SpecCollect == InitCollect /\ [][NextCollect]_vars

\* The program takes its next statement whenever it can; what the ring
\* delivers and when a signal comes is up to the environment.
SpecCollectLive == SpecCollect /\ WF_vars(ProgramCollect)

\* init_and_collect returned the error of an attach.
AttachFailed == col.pc = "returned" /\ col.failed_at = "attach"

InitSinceDetach ==
    \E i \in 1..Len(SinceDetach(bld.log)) : SinceDetach(bld.log)[i].op = "init"

\* The builder holds a link of hook h.
HookAttached(h) ==
    \E i \in 1..Len(bld.st.links) :
        bld.st.links[i].kind = "hook" /\ bld.st.links[i].what = h

\* C21: a hook handed to the builder is attached from init until detach,
\* and after detach the builder no longer holds it.
C21_HookLifecycle ==
    /\ InitSinceDetach =>
          \A i \in 1..Len(bld.st.hooks) : HookAttached(bld.st.hooks[i])
    /\ (Len(bld.log) > 0 /\ bld.log[Len(bld.log)].op = "detach") =>
          /\ bld.st.hooks = <<>>
          /\ \A i \in 1..Len(bld.st.links) : bld.st.links[i].kind # "hook"

\* The order of the start-up steps.
StartupOrder ==
    <<"register", "events", "kernel", "cli", "init", "polling", "attach", "start">>

\* The statement that follows the first n steps.
PcAfter(n) ==
    IF n < 3 THEN "new"
    ELSE IF n = 3 THEN "cli"
    ELSE IF n = 4 THEN "init"
    ELSE IF n = 5 THEN "polling"
    ELSE IF n = 6 THEN "attach"
    ELSE IF n = 7 THEN "start"
    ELSE "loop"

StepDone(step) == \E i \in 1..Len(col.steps) : col.steps[i] = step

\* C22: the start-up steps run in the strict order; a step begins only
\* after the previous one returned Ok, and after a failing step no later
\* step runs: the probes are attached only after polling started, and the
\* loop polls only after every step.
C22_StartupOrder ==
    /\ Len(col.steps) <= Len(StartupOrder)
    /\ \A i \in 1..Len(col.steps) : col.steps[i] = StartupOrder[i]
    /\ col.pc \in {PcAfter(Len(col.steps)), "returned"}
    /\ (col.failed_at # "" \/ col.ret = "Err") =>
          /\ col.pc = "returned"
          /\ ~StepDone(col.failed_at)
    /\ bld.log # <<>> => StepDone("polling")
    /\ (col.arrivals # <<>> \/ col.emitted > 0) => Len(col.steps) = Len(StartupOrder)

C22_Witness ==
    /\ col.pc = "loop"
    /\ col.emitted >= 1
    /\ Len(bld.log) >= 2

\* What the loop does with an arrival of this kind, as long as it runs.
HandledAs(kind) == IF kind = "event" THEN "event" ELSE "dropped"

RECURSIVE CountOf(_, _)
CountOf(seq, x) ==
    IF seq = <<>> THEN 0
    ELSE (IF seq[1] = x THEN 1 ELSE 0) + CountOf(Tail(seq), x)

\* C23: a raw event that does not decode is dropped and only it: the loop
\* is left for an error of the ring alone, every arrival before that is
\* handled in order, and every arrival that decodes is emitted, also after
\* a dropped one.
C23_DecodeErrorDropsOne ==
    /\ col.failed_at = "poll" => col.ring = "error"
    /\ col.pc = "loop" =>
          Len(col.handled) = Len(col.arrivals) - (IF col.ring = "" THEN 0 ELSE 1)
    /\ Len(col.handled) <= Len(col.arrivals)
    /\ \A i \in 1..Len(col.handled) : col.handled[i] = HandledAs(col.arrivals[i])
    /\ col.emitted = CountOf(col.handled, "event")

\* An event is emitted after an undecodable one was dropped.
C23_Witness ==
    \E i \in 1..Len(col.handled) :
        /\ col.handled[i] = "dropped"
        /\ \E j \in (i + 1)..Len(col.handled) : col.handled[j] = "event"

\* C24: once a shutdown is requested, init_and_collect eventually leaves
\* the loop and returns.
C24_ShutdownTerminates ==
    (col.shutdown /\ col.pc = "loop") ~> (col.pc = "returned")

\* The last call of the builder.
LastCall(b) == b.log[Len(b.log)]

\* C30: an attach with a probe that is not a raw tracepoint returns an
\* error and leaves the links, the hooks, the map fds and the loaded object
\* the builder holds as they were.
C30_WrongKindRejected ==
    [][(BuilderAttach /\ LastCall(bld').arg # "RawTracepoint") =>
          /\ bld'.ret = "Err"
          /\ bld'.st.links = bld.st.links
          /\ bld'.st.hooks = bld.st.hooks
          /\ bld'.st.map_fds = bld.st.map_fds
          /\ bld'.st.skel = bld.st.skel]_vars

C30_Witness ==
    /\ Len(bld.log) > 0
    /\ LastCall(bld).op = "attach"
    /\ LastCall(bld).arg = "Kprobe"
    /\ bld.ret = "Err"
    /\ bld.st.links # <<>>
    /\ bld.st.hooks # <<>>
    /\ bld.st.skel # 0

(***************************************************************************)
(* The offsets of the Loads, read off the BTF along the path of the text.  *)
(***************************************************************************)
\* The mask written on a component, zero when none is.
MaskOf(parts) ==
    IF Len(parts) >= 2 THEN parse_mask(parts[2]).val ELSE Zero64

FieldMask(comp) == MaskOf(Split(comp, ":"))

FieldName(comp) == MemberName(Split(comp, ":")[1])

\* The bitfield width of a member, 0 when it is no bitfield.
BfOf(node) == IF node.bfs = NoBf THEN 0 ELSE node.bfs

RECURSIVE PathFrom(_, _, _, _)
\* After the non-terminal component i, of type m behind d pointers and at
\* bit offset `bit` of the struct last dereferenced: behind one pointer it
\* is dereferenced and the offsets start anew.
PathAfter(m, d, i, bit, comps) ==
    <<[kind |-> IF d = 1 THEN "ptr" ELSE IF d = 0 THEN "embedded" ELSE "deep",
       offt |-> bit \div 8, mask |-> FieldMask(comps[i])]>>
    \o PathFrom(Aggregate(m), i + 1, IF d = 1 THEN 0 ELSE bit, comps)

\* The member found for component i, at the running bit offset run.
PathAt(node, i, run, comps) ==
    IF i >= Len(comps)
    THEN <<[kind |-> "terminal", bit |-> run + node.offset, bfs |-> BfOf(node)]>>
    ELSE PathAfter(node.type, PointerDepth(node.type), i, run + node.offset, comps)

\* What the path is made of from component i on, looked up in t: one
\* record per non-terminal field, and last the terminal field with its bit
\* offset and bitfield width.
PathFrom(t, i, run, comps) ==
    PathAt(walk_btf_node(t, FieldName(comps[i]), 0), i, run, comps)

Path == PathFrom("sk_buff", 2, 0, Components)

RECURSIVE OfKind(_, _)
\* The records of a path that are of the kind k.
OfKind(path, k) ==
    IF path = <<>> THEN <<>>
    ELSE (IF path[1].kind = k THEN <<path[1]>> ELSE <<>>) \o OfKind(Tail(path), k)

\* offt of the terminal Load: bits for a bitfield, bytes otherwise.
TerminalOfft(terminal) ==
    IF terminal.bfs > 0 THEN terminal.bit ELSE terminal.bit \div 8

\* The Loads after the Target are the pointer Loads ptrs, then the terminal.
PointerLoadsAre(ops, ptrs, terminal) ==
    /\ Len(ops) = 2 + Len(ptrs)
    /\ \A k \in 1..Len(ptrs) :
          /\ ops[1 + k].type = PTR_BIT
          /\ ops[1 + k].offt = ptrs[k].offt
          /\ ops[1 + k].mask = ptrs[k].mask
    /\ Len(ptrs) >= 1 => LastOf(ops).offt = TerminalOfft(terminal)

WellHeaded == Len(Components) >= 2 /\ ComponentName(1) = "sk_buff"

\* C26: a non-terminal field behind exactly one pointer gives one Load
\* with type = PTR_BIT, offt = its accumulated bit offset / 8 and its mask,
\* and the offsets start anew after it, so the field that follows is at its
\* own offset in the struct pointed to; a non-terminal field behind more
\* than one pointer is an error.
C26_PointerField ==
    /\ Compiled => PointerLoadsAre(result.ops, OfKind(Path, "ptr"), LastOf(Path))
    /\ (Done /\ WellHeaded /\ OfKind(Path, "deep") # <<>>) => result.kind = "Err"

MaskedPointerAt(ptrs) ==
    \E k \in 1..Len(ptrs) : ptrs[k].offt > 0 /\ ~IsZero64(ptrs[k].mask)

\* A masked pointer field at a non-zero offset, and a terminal after it.
C26_Witness ==
    /\ Compiled
    /\ MaskedPointerAt(OfKind(Path, "ptr"))
    /\ LastLoad.offt > 0

\* No Load stands for an embedded field, and the terminal Load is at the
\* offset accumulated through the embedded fields.
EmbeddedAccumulated(ops, path, embedded) ==
    /\ Len(ops) = 1 + Len(path) - Len(embedded)
    /\ embedded # <<>> => LastOf(ops).offt = TerminalOfft(LastOf(path))

AnyMasked(fields) == \E k \in 1..Len(fields) : ~IsZero64(fields[k].mask)

\* C27: a non-terminal field that is an embedded struct or union gives no
\* Load; its bit offset, anonymous members included, adds to the offset of
\* the field that follows; a non-zero mask on it is an error.
C27_EmbeddedField ==
    /\ Compiled => EmbeddedAccumulated(result.ops, Path, OfKind(Path, "embedded"))
    /\ (Done /\ WellHeaded /\ AnyMasked(OfKind(Path, "embedded"))) => result.kind = "Err"

\* A terminal inside an embedded struct that is not at the start of its
\* parent.
C27_Witness ==
    /\ Compiled
    /\ OfKind(Path, "embedded") # <<>>
    /\ OfKind(Path, "embedded")[1].offt > 0
    /\ LastLoad.offt > OfKind(Path, "embedded")[1].offt

\* The terminal Load has the bitfield width of the terminal field and its
\* offset in bits when that width is not 0, in bytes when it is.
TerminalLoadIs(lop, terminal) ==
    /\ lop.bf_size = terminal.bfs
    /\ lop.offt = TerminalOfft(terminal)

\* C28: in the terminal Load bf_size is the bitfield width of the terminal
\* field itself, 0 when it is no bitfield whatever fields precede it; offt
\* is the field's bit offset from the struct last dereferenced when bf_size
\* > 0 and that bit offset divided by 8 when bf_size = 0.
C28_TerminalOffset ==
    Compiled => TerminalLoadIs(LastLoad, LastOf(Path))

\* A bitfield terminal reached through a pointer.
C28_Witness ==
    /\ Compiled
    /\ LastLoad.bf_size > 0
    /\ LastLoad.offt >= 8
    /\ OfKind(Path, "ptr") # <<>>

\* The terminal field is no bitfield and lies beyond bit 65535, though
\* within 65535 bytes.
FarTerminal(terminal) ==
    terminal.bfs = 0 /\ terminal.bit > 65535 /\ terminal.bit \div 8 <= 65535

\* C29: the range of the terminal offset is tested on the offset in bits,
\* before the division by 8: a terminal field that is no bitfield and whose
\* bit offset exceeds 65535 is an error, though its byte offset fits in 16
\* bits, and no program is made.
C29_RangeCheckInBits ==
    (Done /\ WellHeaded /\ FarTerminal(LastOf(Path))) =>
        result.kind = "Err" /\ result.ops = <<>>

\* The walk reached such a field and emit_load refused its offset.
C29_Witness ==
    /\ Done /\ WellHeaded /\ FarTerminal(LastOf(Path))
    /\ OfKind(Path, "ptr") # <<>>
    /\ result.kind = "Err"
    /\ result.err = "offt out of range"

(***************************************************************************)
(* OvsEvent and its JSON form (retis-events/src/ovs.rs).  serde writes an  *)
(* event as one flat JSON object: the tag event_type, then the fields of   *)
(* the variant, the fields of an action flattened among them.  A JSON      *)
(* value is a number, a string, null or an object.                         *)
(***************************************************************************)
JNum(n) == [num |-> n]
JStr(str) == [str |-> str]
JNull == [null |-> TRUE]
JObj(obj) == [obj |-> obj]

\* Option<T>
Absent(default) == [some |-> FALSE, val |-> default]
Present(val) == [some |-> TRUE, val |-> val]

\* JSON of an Option field that is written as null when None.
JOptNum(o) == IF o.some THEN JNum(o.val) ELSE JNull
JOptStr(o) == IF o.some THEN JStr(o.val) ELSE JNull

U8_MAX == 255
U16_MAX == 65535

\* OperationEvent::operation_str(op_type): [ok, str].
operation_str(op_type) ==
    IF op_type = 0 THEN [ok |-> TRUE, str |-> "exec"]
    ELSE IF op_type = 1 THEN [ok |-> TRUE, str |-> "put"]
    ELSE [ok |-> FALSE, str |-> ""]

\* OperationEvent::deserialize_op on a JSON value: [ok, val].
deserialize_op(v) ==
    IF "str" \notin DOMAIN v THEN [ok |-> FALSE, val |-> 0]
    ELSE IF v.str = "exec" THEN [ok |-> TRUE, val |-> 0]
    ELSE IF v.str = "put" THEN [ok |-> TRUE, val |-> 1]
    ELSE [ok |-> FALSE, val |-> 0]

\* #[serde(rename)] of NatDirection.
NatDirectionStr(dir) == IF dir = "Src" THEN "src" ELSE "dst"

JsonOk(obj) == [kind |-> "Ok", obj |-> obj]
JsonErr == [kind |-> "Err", obj |-> <<>>]

EventType(name) == [event_type |-> JStr(name)]

\* The fields of each struct as serde writes them.
SerUpcall(e) ==
    [cmd |-> JNum(e.cmd), port |-> JNum(e.port), cpu |-> JNum(e.cpu)]

SerUpcallEnqueue(e) ==
    [ret |-> JNum(e.ret), cmd |-> JNum(e.cmd), port |-> JNum(e.port),
     upcall_ts |-> JNum(e.upcall_ts), upcall_cpu |-> JNum(e.upcall_cpu),
     queue_id |-> JNum(e.queue_id)]

SerUpcallReturn(e) ==
    [upcall_ts |-> JNum(e.upcall_ts), upcall_cpu |-> JNum(e.upcall_cpu),
     ret |-> JNum(e.ret)]

SerRecvUpcall(e) ==
    [type |-> JNum(e.type), pkt_size |-> JNum(e.pkt_size),
     key_size |-> JNum(e.key_size), queue_id |-> JNum(e.queue_id),
     batch_ts |-> JNum(e.batch_ts), batch_idx |-> JNum(e.batch_idx)]

\* serialize_op: the op_type is written as a string, or the error of
\* operation_str is the error of the serialization.
SerOperation(e, op) ==
    IF ~op.ok THEN JsonErr
    ELSE JsonOk(EventType("flow_operation") @@
                [op_type |-> JStr(op.str), queue_id |-> JNum(e.queue_id),
                 batch_ts |-> JNum(e.batch_ts), batch_idx |-> JNum(e.batch_idx)])

SerNat(nat) ==
    [dir |-> IF nat.dir.some THEN JStr(NatDirectionStr(nat.dir.val)) ELSE JNull,
     min_addr |-> JOptStr(nat.min_addr), max_addr |-> JOptStr(nat.max_addr),
     min_port |-> JOptNum(nat.min_port), max_port |-> JOptNum(nat.max_port)]

\* OvsActionCt: nat is skipped when None.
SerCt(ct) ==
    IF ct.nat.some
    THEN [flags |-> JNum(ct.flags), zone_id |-> JNum(ct.zone_id),
          nat |-> JObj(SerNat(ct.nat.val))]
    ELSE [flags |-> JNum(ct.flags), zone_id |-> JNum(ct.zone_id)]

\* OvsAction, tagged by the key action.
SerOvsAction(a) ==
    CASE a.variant = "output" -> [action |-> JStr("output"), port |-> JNum(a.port)]
      [] a.variant = "recirc" -> [action |-> JStr("recirc"), id |-> JNum(a.id)]
      [] a.variant = "drop"   -> [action |-> JStr("drop"), reason |-> JNum(a.reason)]
      [] a.variant = "ct"     -> [action |-> JStr("ct")] @@ SerCt(a.ct)
      [] OTHER                -> [action |-> JStr(a.variant)]

\* ActionEvent: action is flattened, queue_id skipped when None.
SerActionQueue(e, fields) ==
    IF e.queue_id.some THEN fields @@ [queue_id |-> JNum(e.queue_id.val)] ELSE fields

SerAction(e) ==
    SerActionQueue(e,
        IF e.action.some
        THEN SerOvsAction(e.action.val) @@
             [recirc_id |-> JNum(e.recirc_id), mru |-> JNum(e.mru),
              action_address |-> JNum(e.action_address)]
        ELSE [recirc_id |-> JNum(e.recirc_id), mru |-> JNum(e.mru),
              action_address |-> JNum(e.action_address)])

\* serde_json::to_string(event) as a JSON object: [kind, obj].
to_json(e) ==
    CASE e.variant = "Upcall" ->
            JsonOk(EventType("upcall") @@ SerUpcall(e))
      [] e.variant = "UpcallEnqueue" ->
            JsonOk(EventType("upcall_enqueue") @@ SerUpcallEnqueue(e))
      [] e.variant = "UpcallReturn" ->
            JsonOk(EventType("upcall_return") @@ SerUpcallReturn(e))
      [] e.variant = "RecvUpcall" ->
            JsonOk(EventType("recv_upcall") @@ SerRecvUpcall(e))
      [] e.variant = "Operation" ->
            SerOperation(e, operation_str(e.op_type))
      [] e.variant = "Action" ->
            JsonOk(EventType("action_execute") @@ SerAction(e))

\* The key k is present in the object with a value of the JSON type ty.
Has(obj, k, ty) == k \in DOMAIN obj /\ ty \in DOMAIN obj[k]

\* An unsigned number of at most max, a number of any size, a string.
HasUpTo(obj, k, max) ==
    Has(obj, k, "num") /\ obj[k].num >= 0 /\ obj[k].num <= max
HasUnsigned(obj, k) == Has(obj, k, "num") /\ obj[k].num >= 0
HasNumber(obj, k) == Has(obj, k, "num")

ParsedOk(event) == [kind |-> "Ok", event |-> event]
ParsedErr == [kind |-> "Err", event |-> [variant |-> "none"]]

DeUpcall(obj) ==
    IF HasUpTo(obj, "cmd", U8_MAX) /\ HasUnsigned(obj, "port") /\ HasUnsigned(obj, "cpu")
    THEN ParsedOk([variant |-> "Upcall", cmd |-> obj.cmd.num, port |-> obj.port.num,
                   cpu |-> obj.cpu.num])
    ELSE ParsedErr

DeUpcallEnqueue(obj) ==
    IF /\ HasNumber(obj, "ret") /\ HasUpTo(obj, "cmd", U8_MAX)
       /\ HasUnsigned(obj, "port") /\ HasUnsigned(obj, "upcall_ts")
       /\ HasUnsigned(obj, "upcall_cpu") /\ HasUnsigned(obj, "queue_id")
    THEN ParsedOk([variant |-> "UpcallEnqueue", ret |-> obj.ret.num,
                   cmd |-> obj.cmd.num, port |-> obj.port.num,
                   upcall_ts |-> obj.upcall_ts.num,
                   upcall_cpu |-> obj.upcall_cpu.num,
                   queue_id |-> obj.queue_id.num])
    ELSE ParsedErr

DeUpcallReturn(obj) ==
    IF /\ HasUnsigned(obj, "upcall_ts") /\ HasUnsigned(obj, "upcall_cpu")
       /\ HasNumber(obj, "ret")
    THEN ParsedOk([variant |-> "UpcallReturn", upcall_ts |-> obj.upcall_ts.num,
                   upcall_cpu |-> obj.upcall_cpu.num, ret |-> obj.ret.num])
    ELSE ParsedErr

DeRecvUpcall(obj) ==
    IF /\ HasUnsigned(obj, "type") /\ HasUnsigned(obj, "pkt_size")
       /\ HasUnsigned(obj, "key_size") /\ HasUnsigned(obj, "queue_id")
       /\ HasUnsigned(obj, "batch_ts") /\ HasUpTo(obj, "batch_idx", U8_MAX)
    THEN ParsedOk([variant |-> "RecvUpcall", type |-> obj.type.num,
                   pkt_size |-> obj.pkt_size.num, key_size |-> obj.key_size.num,
                   queue_id |-> obj.queue_id.num, batch_ts |-> obj.batch_ts.num,
                   batch_idx |-> obj.batch_idx.num])
    ELSE ParsedErr

\* OperationEvent, op being what deserialize_op made of the key op_type.
DeOperationOp(obj, op) ==
    IF /\ op.ok /\ HasUnsigned(obj, "queue_id") /\ HasUnsigned(obj, "batch_ts")
       /\ HasUpTo(obj, "batch_idx", U8_MAX)
    THEN ParsedOk([variant |-> "Operation", op_type |-> op.val,
                   queue_id |-> obj.queue_id.num, batch_ts |-> obj.batch_ts.num,
                   batch_idx |-> obj.batch_idx.num])
    ELSE ParsedErr

DeOperation(obj) ==
    IF "op_type" \notin DOMAIN obj THEN ParsedErr
    ELSE DeOperationOp(obj, deserialize_op(obj.op_type))

NoNat == [dir |-> Absent("Src"), min_addr |-> Absent(""), max_addr |-> Absent(""),
          min_port |-> Absent(0), max_port |-> Absent(0)]
NoAction == [variant |-> "none"]

\* An Option field of a struct: None when the key is missing or null.
DeOptStr(obj, k) == IF Has(obj, k, "str") THEN Present(obj[k].str) ELSE Absent("")
DeOptU16(obj, k) == IF HasUpTo(obj, k, U16_MAX) THEN Present(obj[k].num) ELSE Absent(0)
DeOptDir(obj) ==
    IF Has(obj, "dir", "str") /\ obj.dir.str \in {"src", "dst"}
    THEN Present(IF obj.dir.str = "src" THEN "Src" ELSE "Dst")
    ELSE Absent("Src")

\* The value of an Option field is of the JSON type ty, null or missing.
OptIs(obj, k, ty) == k \in DOMAIN obj => (Has(obj, k, ty) \/ Has(obj, k, "null"))

DeNatOk(obj) ==
    /\ OptIs(obj, "dir", "str") /\ OptIs(obj, "min_addr", "str")
    /\ OptIs(obj, "max_addr", "str") /\ OptIs(obj, "min_port", "num")
    /\ OptIs(obj, "max_port", "num")
    /\ Has(obj, "dir", "str") => obj.dir.str \in {"src", "dst"}
    /\ Has(obj, "min_port", "num") => HasUpTo(obj, "min_port", U16_MAX)
    /\ Has(obj, "max_port", "num") => HasUpTo(obj, "max_port", U16_MAX)

DeNat(obj) ==
    [dir |-> DeOptDir(obj), min_addr |-> DeOptStr(obj, "min_addr"),
     max_addr |-> DeOptStr(obj, "max_addr"), min_port |-> DeOptU16(obj, "min_port"),
     max_port |-> DeOptU16(obj, "max_port")]

\* OvsActionCt: [ok, ct].
DeCt(obj) ==
    IF ~(HasUnsigned(obj, "flags") /\ HasUpTo(obj, "zone_id", U16_MAX))
    THEN [ok |-> FALSE, ct |-> NoAction]
    ELSE IF ~Has(obj, "nat", "obj")
    THEN [ok |-> "nat" \notin DOMAIN obj \/ Has(obj, "nat", "null"),
          ct |-> [flags |-> obj.flags.num, zone_id |-> obj.zone_id.num,
                  nat |-> Absent(NoNat)]]
    ELSE [ok |-> DeNatOk(obj.nat.obj),
          ct |-> [flags |-> obj.flags.num, zone_id |-> obj.zone_id.num,
                  nat |-> Present(DeNat(obj.nat.obj))]]

DummyActions ==
    {"userspace", "set", "push_vlan", "pop_vlan", "sample", "hash", "push_mpls",
     "pop_mpls", "set_masked", "trunc", "push_eth", "pop_eth", "ct_clear",
     "push_nsh", "pop_nsh", "meter", "clone", "check_pkt_len", "add_mpls",
     "dec_ttl"}

DeCtAction(r) ==
    IF r.ok THEN Present([variant |-> "ct", ct |-> r.ct]) ELSE Absent(NoAction)

\* The flattened Option<OvsAction>: None when no action can be read.
DeOvsAction(obj) ==
    IF ~Has(obj, "action", "str") THEN Absent(NoAction)
    ELSE CASE obj.action.str = "output" ->
                 IF HasUnsigned(obj, "port")
                 THEN Present([variant |-> "output", port |-> obj.port.num])
                 ELSE Absent(NoAction)
           [] obj.action.str = "recirc" ->
                 IF HasUnsigned(obj, "id")
                 THEN Present([variant |-> "recirc", id |-> obj.id.num])
                 ELSE Absent(NoAction)
           [] obj.action.str = "drop" ->
                 IF HasUnsigned(obj, "reason")
                 THEN Present([variant |-> "drop", reason |-> obj.reason.num])
                 ELSE Absent(NoAction)
           [] obj.action.str = "ct" -> DeCtAction(DeCt(obj))
           [] obj.action.str \in DummyActions -> Present([variant |-> obj.action.str])
           [] OTHER -> Absent(NoAction)

DeAction(obj) ==
    IF /\ HasUnsigned(obj, "recirc_id") /\ HasUpTo(obj, "mru", U16_MAX)
       /\ HasUnsigned(obj, "action_address")
       /\ "queue_id" \in DOMAIN obj => HasUnsigned(obj, "queue_id")
    THEN ParsedOk([variant |-> "Action", action |-> DeOvsAction(obj),
                   recirc_id |-> obj.recirc_id.num, mru |-> obj.mru.num,
                   action_address |-> obj.action_address.num,
                   queue_id |-> IF "queue_id" \in DOMAIN obj
                                THEN Present(obj.queue_id.num) ELSE Absent(0)])
    ELSE ParsedErr

\* serde_json::from_str::<OvsEvent> on a JSON object: [kind, event].
from_json(obj) ==
    IF ~Has(obj, "event_type", "str") THEN ParsedErr
    ELSE CASE obj.event_type.str = "upcall"         -> DeUpcall(obj)
           [] obj.event_type.str = "upcall_enqueue" -> DeUpcallEnqueue(obj)
           [] obj.event_type.str = "upcall_return"  -> DeUpcallReturn(obj)
           [] obj.event_type.str = "recv_upcall"    -> DeRecvUpcall(obj)
           [] obj.event_type.str = "flow_operation" -> DeOperation(obj)
           [] obj.event_type.str = "action_execute" -> DeAction(obj)
           [] OTHER                                 -> ParsedErr

\* The events drawn: the values of the unit test and their neighbours.
OpTypes == 0..MaxOpType \cup {U8_MAX}

Nats ==
    { NoNat,
      [dir |-> Present("Dst"), min_addr |-> Present("10.244.1.3"),
       max_addr |-> Present("10.244.1.30"), min_port |-> Present(36895),
       max_port |-> Present(36900)],
      [dir |-> Present("Src"), min_addr |-> Absent(""), max_addr |-> Absent(""),
       min_port |-> Present(0), max_port |-> Absent(0)] }

OvsActions ==
    { [variant |-> "output", port |-> 2], [variant |-> "recirc", id |-> 34],
      [variant |-> "drop", reason |-> 0], [variant |-> "userspace"],
      [variant |-> "dec_ttl"] }
    \cup { [variant |-> "ct", ct |-> [flags |-> 485, zone_id |-> 20, nat |-> n]] :
             n \in {Absent(NoNat)} \cup { Present(x) : x \in Nats } }

OvsEvents ==
    { [variant |-> "Upcall", cmd |-> c, port |-> p, cpu |-> 0] :
        c \in {0, 1, U8_MAX}, p \in {0, 41957} }
    \cup { [variant |-> "UpcallEnqueue", ret |-> r, cmd |-> 1, port |-> 41957,
            upcall_ts |-> 610962, upcall_cpu |-> 0, queue_id |-> q] :
             r \in {0, -1}, q \in {0, 33163} }
    \cup { [variant |-> "UpcallReturn", upcall_ts |-> 610962, upcall_cpu |-> c,
            ret |-> r] : r \in {0, -1}, c \in {0, 1} }
    \cup { [variant |-> "RecvUpcall", type |-> 0, pkt_size |-> s, key_size |-> 8,
            queue_id |-> 33163, batch_ts |-> 610962, batch_idx |-> i] :
             s \in {0, 64}, i \in {0, U8_MAX} }
    \cup { [variant |-> "Operation", op_type |-> t, queue_id |-> q,
            batch_ts |-> 610962, batch_idx |-> i] :
             t \in OpTypes, q \in {0, 33163}, i \in {0, 1} }
    \cup { [variant |-> "Action", action |-> a, recirc_id |-> r, mru |-> 0,
            action_address |-> 0, queue_id |-> q] :
             a \in {Absent(NoAction)} \cup { Present(x) : x \in OvsActions },
             r \in {0, 32}, q \in {Absent(0), Present(13613)} }

NoJson == [kind |-> "None", obj |-> <<>>]
NoParsed == [kind |-> "None", event |-> [variant |-> "none"]]

InitOvs ==
    /\ ovs \in { [pc |-> "event", event |-> e, json |-> NoJson, parsed |-> NoParsed] :
                   e \in OvsEvents }
    /\ fstring = <<>> /\ result = NoResult /\ pc = Idle
    /\ pkt = Idle /\ kev = Idle /\ bld = Idle /\ col = Idle

\* The event is serialized.
ToJson ==
    /\ ovs.pc = "event"
    /\ ovs' = [ovs EXCEPT !.pc = "json", !.json = to_json(ovs.event)]
    /\ UNCHANGED <<metaVars, pkt, kev, bld, col>>

\* The JSON of the event is read back.
FromJson ==
    /\ ovs.pc = "json"
    /\ ovs.json.kind = "Ok"
    /\ ovs' = [ovs EXCEPT !.pc = "done", !.parsed = from_json(ovs.json.obj)]
    /\ UNCHANGED <<metaVars, pkt, kev, bld, col>>

NextOvs == ToJson \/ FromJson

SpecOvs == InitOvs /\ [][NextOvs]_vars

\* C25: every OvsEvent is serialized without error and reading its JSON
\* back gives the event again, an Operation event of any op_type included;
\* op_type 0 is written as "exec" and 1 as "put".
C25_JsonRoundTrip ==
    /\ ovs.pc = "json" => ovs.json.kind = "Ok"
    /\ ovs.pc = "done" => ovs.parsed = ParsedOk(ovs.event)
    /\ (ovs.pc = "done" /\ ovs.event.variant = "Operation") =>
          /\ ovs.event.op_type = 0 => ovs.json.obj.op_type = JStr("exec")
          /\ ovs.event.op_type = 1 => ovs.json.obj.op_type = JStr("put")

====
